---- MODULE Spec2Model ----
(***************************************************************************)
(* A model of use-firestore's subscription services:                       *)
(*   - SubscriptionService (lib/SubscriptionService.ts): doc hooks and     *)
(*     query hooks sharing document ownership, with the 100 ms grace timer *)
(*   - QueryService (lib/QueryService.ts): query hooks only                *)
(*   - CollectionService + ChunkedSnapshotListener: hooks asking for       *)
(*     documents of a collection by id, served by chunked subscriptions    *)
(* Every handler is one action; closures created by a registration are     *)
(* identified by the registration instance <<hookId, generation>>.         *)
(***************************************************************************)
EXTENDS Integers, Sequences, FiniteSets, TLC

\* ------------------------------------------------------------------ bounds
MaxRegs == 4
SvcMaxRegs == 3
CsMaxRegs == 2
CsMaxVersion == 1
MaxVersion == 2
LsMaxCalls == 2
CsChurnMaxRegs == 3

\* ------------------------------------------------------------------ inputs
DocHooks == {"d1", "d2", "d3"}
QueryHooks == {"q1", "q2"}
CollHooks == {"c1", "c2"}
Hooks == DocHooks \cup QueryHooks \cup CollHooks
PathSeq == <<"p1">>
Paths == {PathSeq[i] : i \in 1..Len(PathSeq)}
PathOf(h) == "p1"

NoOwner == "none"
NoDoc == [id |-> "none", data |-> -1, path |-> "none"]
NoResult == [set |-> FALSE, docs |-> <<>>]
NoPaths == [set |-> FALSE, paths |-> {}]

\* ------------------------------------------------------------------ state
VARIABLES
  ownerByDocPath, unsubscribeFunctionsByDocPath, docListenersByPath,
  lastDocByPath, assignDocOwnerFunctionsByPath,
  ownerByQueryKey, unsubscribeFunctionsByQueryKey, queryListenersByKey,
  lastQueryResultByKey, assignQueryOwnerFunctionsByKey,
  timers, subscriptions, storeDocs, gen, registered,
  calls, storeCalls, err, lastOp, service,
  snapshotListenersByCollectionPath, subscriptionsByCollectionPath,
  docsCacheByCollectionPath, docIdsByHookId, listeners, startTimers,
  chunkSubs, collDocs, asked, errorsSeen, updates, wasShutDown,
  firestore, batches, currentBatch, operationCount, delPc, nextBatch, commits,
  delCall

svcVars == <<ownerByDocPath, unsubscribeFunctionsByDocPath, docListenersByPath,
  lastDocByPath, assignDocOwnerFunctionsByPath,
  ownerByQueryKey, unsubscribeFunctionsByQueryKey, queryListenersByKey,
  lastQueryResultByKey, assignQueryOwnerFunctionsByKey,
  timers, subscriptions, storeDocs>>

\* what the hooks did, and what the handler run last did
hookVars == <<gen, registered, calls, storeCalls, err, lastOp, service>>

csVars == <<snapshotListenersByCollectionPath, subscriptionsByCollectionPath,
  docsCacheByCollectionPath, docIdsByHookId, listeners, startTimers,
  chunkSubs, collDocs, asked, errorsSeen, updates, wasShutDown>>

\* deleteDocs: the store it writes, its BatchOfBatches, where it stands and
\* what it committed
delVars == <<firestore, batches, currentBatch, operationCount, delPc, nextBatch,
  commits, delCall>>

vars == <<svcVars, hookVars, csVars, delVars>>

\* The service state as one record, so that handlers compose like the calls do.
\* calls, storeCalls and err describe the handler being run: the callbacks it
\* invoked, the store calls it made, and the error it raised.
Cur ==
  [ownerByDocPath |-> ownerByDocPath,
   unsubscribeFunctionsByDocPath |-> unsubscribeFunctionsByDocPath,
   docListenersByPath |-> docListenersByPath,
   lastDocByPath |-> lastDocByPath,
   assignDocOwnerFunctionsByPath |-> assignDocOwnerFunctionsByPath,
   ownerByQueryKey |-> ownerByQueryKey,
   unsubscribeFunctionsByQueryKey |-> unsubscribeFunctionsByQueryKey,
   queryListenersByKey |-> queryListenersByKey,
   lastQueryResultByKey |-> lastQueryResultByKey,
   assignQueryOwnerFunctionsByKey |-> assignQueryOwnerFunctionsByKey,
   timers |-> timers,
   subscriptions |-> subscriptions,
   calls |-> <<>>, storeCalls |-> <<>>, err |-> "none"]

Apply(s) ==
  /\ ownerByDocPath' = s.ownerByDocPath
  /\ unsubscribeFunctionsByDocPath' = s.unsubscribeFunctionsByDocPath
  /\ docListenersByPath' = s.docListenersByPath
  /\ lastDocByPath' = s.lastDocByPath
  /\ assignDocOwnerFunctionsByPath' = s.assignDocOwnerFunctionsByPath
  /\ ownerByQueryKey' = s.ownerByQueryKey
  /\ unsubscribeFunctionsByQueryKey' = s.unsubscribeFunctionsByQueryKey
  /\ queryListenersByKey' = s.queryListenersByKey
  /\ lastQueryResultByKey' = s.lastQueryResultByKey
  /\ assignQueryOwnerFunctionsByKey' = s.assignQueryOwnerFunctionsByKey
  /\ timers' = s.timers
  /\ subscriptions' = s.subscriptions
  /\ calls' = s.calls
  /\ storeCalls' = s.storeCalls
  /\ err' = s.err
  /\ UNCHANGED <<service, csVars, delVars>>

\* ------------------------------------------------------------------ helpers
IndexOf(seq, x) ==
  IF \E i \in 1..Len(seq) : seq[i] = x
  THEN CHOOSE i \in 1..Len(seq) : seq[i] = x /\ \A j \in 1..(i - 1) : seq[j] # x
  ELSE 0

RemoveAt(seq, i) ==
  [j \in 1..(Len(seq) - 1) |-> IF j < i THEN seq[j] ELSE seq[j + 1]]

Throw(s, msg) == [s EXCEPT !.err = msg]

InvokeOnDoc(s, inst, doc) ==
  [s EXCEPT !.calls = Append(@, [kind |-> "onDoc", inst |-> inst, doc |-> doc, docs |-> <<>>, ids |-> <<>>])]

InvokeOnDocs(s, inst, docs) ==
  [s EXCEPT !.calls = Append(@, [kind |-> "onDocs", inst |-> inst, doc |-> NoDoc, docs |-> docs, ids |-> <<>>])]

RECURSIVE NotifyDocListeners(_, _, _)
NotifyDocListeners(s, fns, doc) ==
  IF fns = <<>> THEN s
  ELSE NotifyDocListeners(InvokeOnDoc(s, Head(fns), doc), Tail(fns), doc)

RECURSIVE NotifyQueryListeners(_, _, _)
NotifyQueryListeners(s, fns, docs) ==
  IF fns = <<>> THEN s
  ELSE NotifyQueryListeners(InvokeOnDocs(s, Head(fns), docs), Tail(fns), docs)

\* ------------------------------------------------------------------ the store
\* firebase onSnapshot: opens a subscription and returns its unsubscribe handle.
\* The store owes every new subscription a first snapshot (pending).
onSnapshot(s, kind, inst) ==
  [s EXCEPT
     !.subscriptions = Append(@, [kind |-> kind, inst |-> inst, live |-> TRUE,
                                  pending |-> TRUE, previousPaths |-> NoPaths,
                                  seen |-> NoResult]),
     !.storeCalls = Append(@, <<"subscribe", Len(s.subscriptions) + 1>>)]

\* Calling an unsubscribe handle: the subscription delivers nothing any more.
callUnsubscribe(s, handle) ==
  [s EXCEPT
     !.subscriptions[handle].live = FALSE,
     !.subscriptions[handle].pending = FALSE,
     !.subscriptions[handle].seen = NoResult,
     !.storeCalls = Append(@, <<"unsubscribe", handle>>)]

LiveDocSubs(path) ==
  {i \in 1..Len(subscriptions) :
     /\ subscriptions[i].kind = "doc"
     /\ subscriptions[i].live
     /\ PathOf(subscriptions[i].inst[1]) = path}

LiveQuerySubs ==
  {i \in 1..Len(subscriptions) :
     subscriptions[i].kind = "query" /\ subscriptions[i].live}

\* ------------------------------------------------------------------
\* SubscriptionService.registerDocHook and its closures
\* ------------------------------------------------------------------

\* removeListener: stop passing document updates to the hook
DocRemoveListener(s, inst, path) ==
  LET index == IndexOf(s.docListenersByPath[path], inst) IN
  IF index = 0 THEN Throw(s, "listener already gone")
  ELSE [s EXCEPT !.docListenersByPath[path] = RemoveAt(@, index)]

\* subscribe: open the document subscription and become the owner
DocSubscribe(s, inst, path) ==
  IF s.ownerByDocPath[path] # NoOwner THEN Throw(s, "path already owned")
  ELSE LET s1 == onSnapshot(s, "doc", inst) IN
       [s1 EXCEPT !.unsubscribeFunctionsByDocPath[path] = Len(s1.subscriptions),
                  !.ownerByDocPath[path] = inst[1]]

\* A faulty DocTakeOwnership: the new owner always opens its own subscription.
DocTakeOwnershipResubscribes(s, inst, path) ==
  DocSubscribe(s, inst, path)

\* takeOwnership: reuse the subscription when one was ever opened for the path
DocTakeOwnership(s, inst, path) ==
  IF s.unsubscribeFunctionsByDocPath[path] # 0
  THEN [s EXCEPT !.ownerByDocPath[path] = inst[1]]
  ELSE DocSubscribe(s, inst, path)

\* unsubscribe (the grace-timer callback): hand the subscription to the next
\* waiting hook, or shut it down
DocUnsubscribe(s, inst, path) ==
  IF s.ownerByDocPath[path] # inst[1] THEN s
  ELSE LET waiting == s.assignDocOwnerFunctionsByPath[path]
           hasNext == Len(waiting) > 0
           s1 == [s EXCEPT
                    !.assignDocOwnerFunctionsByPath[path] =
                       IF hasNext THEN Tail(waiting) ELSE waiting,
                    !.ownerByDocPath[path] = NoOwner]
       IN IF hasNext THEN DocTakeOwnership(s1, Head(waiting), path)
          ELSE IF s1.unsubscribeFunctionsByDocPath[path] = 0
               THEN Throw(s1, "no unsubscribe function")
               ELSE callUnsubscribe(s1, s1.unsubscribeFunctionsByDocPath[path])

\* A faulty DocListen: the last document is not replayed to the new hook.
DocListenNoReplay(s, inst, path) ==
  [s EXCEPT !.assignDocOwnerFunctionsByPath[path] = Append(@, inst)]

\* listen: queue as a possible next owner and replay the last document
DocListen(s, inst, path) ==
  LET s1 == [s EXCEPT !.assignDocOwnerFunctionsByPath[path] = Append(@, inst)]
      lastDoc == s.lastDocByPath[path]
  IN IF lastDoc # NoDoc THEN InvokeOnDoc(s1, inst, lastDoc) ELSE s1

\* ignoreOwnershipRequests: leave the queue of possible next owners
DocIgnoreOwnershipRequests(s, inst, path) ==
  LET index == IndexOf(s.assignDocOwnerFunctionsByPath[path], inst) IN
  IF index = 0 THEN Throw(s, "ownership function already gone")
  ELSE [s EXCEPT !.assignDocOwnerFunctionsByPath[path] = RemoveAt(@, index)]

\* A faulty DocUnregister: the hook's listener stays in docListenersByPath.
DocUnregisterKeepsListener(s, inst, path) ==
  IF s.ownerByDocPath[path] = inst[1]
  THEN [s EXCEPT !.timers = Append(@, [kind |-> "doc", inst |-> inst])]
  ELSE DocIgnoreOwnershipRequests(s, inst, path)

\* unregister: the owner schedules unsubscribe after UNSUBSCRIBE_DELAY, any
\* other hook just leaves the queue
DocUnregister(s, inst, path) ==
  LET weAreTheOwner == s.ownerByDocPath[path] = inst[1]
      s1 == DocRemoveListener(s, inst, path)
  IN IF s1.err # "none" THEN s1
     ELSE IF weAreTheOwner
          THEN [s1 EXCEPT !.timers = Append(@, [kind |-> "doc", inst |-> inst])]
          ELSE DocIgnoreOwnershipRequests(s1, inst, path)

\* registerDocHook: the body of the registration call
registerDocHook(s, inst, path) ==
  LET s1 == [s EXCEPT !.docListenersByPath[path] = Append(@, inst)] IN
  IF s1.ownerByDocPath[path] # NoOwner
  THEN DocListen(s1, inst, path)
  ELSE DocSubscribe(s1, inst, path)

\* the cachedDoc returned by registerDocHook
registerDocHookCachedDoc(s, path) ==
  IF s.ownerByDocPath[path] # NoOwner THEN s.lastDocByPath[path] ELSE NoDoc

\* A faulty DocOnSnapshot: the document is cached but not passed on.
DocOnSnapshotCacheOnly(s, path, snapshot) ==
  IF ~snapshot.exists THEN Throw(s, "document does not exist")
  ELSE [s EXCEPT !.lastDocByPath[path] =
                    [id |-> path, data |-> snapshot.data, path |-> "none"]]

\* the snapshot callback of a document subscription (lines 361-378)
DocOnSnapshot(s, path, snapshot) ==
  IF ~snapshot.exists THEN Throw(s, "document does not exist")
  ELSE LET newDoc == [id |-> path, data |-> snapshot.data, path |-> "none"]
           s1 == [s EXCEPT !.lastDocByPath[path] = newDoc]
       IN NotifyDocListeners(s1, s1.docListenersByPath[path], newDoc)

\* ------------------------------------------------------------------
\* SubscriptionService.registerQueryHook and its closures
\* ------------------------------------------------------------------

\* the documents of a query snapshot, in result order
QueryDocs(store) ==
  LET InQuery(p) == store[p].inQuery /\ store[p].exists
      matching == SelectSeq(PathSeq, InQuery)
  IN [i \in 1..Len(matching) |->
        [id |-> matching[i], data |-> store[matching[i]].data, path |-> matching[i]]]

DocPaths(docs) == {docs[i].path : i \in 1..Len(docs)}

QueryRemoveListener(s, inst) ==
  LET index == IndexOf(s.queryListenersByKey, inst) IN
  IF index = 0 THEN Throw(s, "listener already gone")
  ELSE [s EXCEPT !.queryListenersByKey = RemoveAt(@, index)]

\* the loop over the paths that left the query result (lines 132-145)
RECURSIVE ReassignRemovedPaths(_, _, _)
ReassignRemovedPaths(s, hookId, removed) ==
  IF removed = <<>> \/ s.err # "none" THEN s
  ELSE LET path == Head(removed)
           waiting == s.assignDocOwnerFunctionsByPath[path]
       IN IF s.ownerByDocPath[path] # hookId \/ waiting = <<>>
          THEN ReassignRemovedPaths(s, hookId, Tail(removed))
          ELSE ReassignRemovedPaths(
                 DocTakeOwnership([s EXCEPT !.ownerByDocPath[path] = NoOwner],
                                  Head(waiting), path),
                 hookId, Tail(removed))

\* A faulty QueryOnSnapshot: the documents of the result are not cached by path.
QueryOnSnapshotNoDocCache(s, handle, store) ==
  LET hookId == s.subscriptions[handle].inst[1]
      docs == QueryDocs(store)
      s1 == [s EXCEPT
               !.ownerByDocPath =
                  [p \in Paths |-> IF p \in DocPaths(docs) /\ @[p] = NoOwner
                                   THEN hookId ELSE @[p]],
               !.lastQueryResultByKey = [set |-> TRUE, docs |-> docs]]
  IN NotifyQueryListeners(s1, s1.queryListenersByKey, docs)

\* the snapshot callback of a query subscription (lines 100-153); previousPaths
\* is the variable of the subscribe closure
QueryOnSnapshot(s, handle, store) ==
  LET hookId == s.subscriptions[handle].inst[1]
      previousPaths == s.subscriptions[handle].previousPaths
      docs == QueryDocs(store)
      newPaths == DocPaths(docs)
      DocAt(p) == CHOOSE d \in {docs[i] : i \in 1..Len(docs)} : d.path = p
      s1 == [s EXCEPT
               !.lastDocByPath =
                  [p \in Paths |-> IF p \in newPaths THEN DocAt(p) ELSE @[p]],
               !.ownerByDocPath =
                  [p \in Paths |-> IF p \in newPaths /\ @[p] = NoOwner
                                   THEN hookId ELSE @[p]],
               !.lastQueryResultByKey = [set |-> TRUE, docs |-> docs]]
      Removed(p) == p \in previousPaths.paths /\ p \notin newPaths
      s2 == IF previousPaths.set
            THEN LET s3 == ReassignRemovedPaths(s1, hookId, SelectSeq(PathSeq, Removed)) IN
                 IF s3.err # "none" THEN s3
                 ELSE [s3 EXCEPT !.subscriptions[handle].previousPaths =
                                    [set |-> TRUE, paths |-> newPaths]]
            ELSE s1
  IN IF s2.err # "none" THEN s2
     ELSE NotifyQueryListeners(s2, s2.queryListenersByKey, docs)

\* subscribe: open the query subscription and become the owner
QuerySubscribe(s, inst) ==
  LET s1 == onSnapshot(s, "query", inst) IN
  [s1 EXCEPT !.unsubscribeFunctionsByQueryKey = Len(s1.subscriptions),
             !.ownerByQueryKey = inst[1]]

\* ignoreOwnershipRequests (lines 251-269): raises when the function is gone
QueryIgnoreOwnershipRequests(s, inst) ==
  LET index == IndexOf(s.assignQueryOwnerFunctionsByKey, inst) IN
  IF index = 0 THEN Throw(s, "take-ownership function already gone")
  ELSE [s EXCEPT !.assignQueryOwnerFunctionsByKey = RemoveAt(@, index)]

\* takeOwnership (lines 242-245)
QueryTakeOwnership(s, inst) ==
  QueryIgnoreOwnershipRequests([s EXCEPT !.ownerByQueryKey = inst[1]], inst)

\* the loop over the last query result in unsubscribe (lines 201-218)
RECURSIVE ReassignQueryDocs(_, _, _)
ReassignQueryDocs(s, hookId, docs) ==
  IF docs = <<>> \/ s.err # "none" THEN s
  ELSE LET path == Head(docs).path
           waiting == s.assignDocOwnerFunctionsByPath[path]
       IN IF s.ownerByDocPath[path] # hookId
          THEN ReassignQueryDocs(s, hookId, Tail(docs))
          ELSE IF waiting = <<>>
               THEN ReassignQueryDocs([s EXCEPT !.ownerByDocPath[path] = NoOwner],
                                      hookId, Tail(docs))
               ELSE ReassignQueryDocs(
                      DocTakeOwnership(
                        [s EXCEPT !.ownerByDocPath[path] = NoOwner,
                                  !.assignDocOwnerFunctionsByPath[path] = Tail(waiting)],
                        Head(waiting), path),
                      hookId, Tail(docs))

\* unsubscribe (the grace-timer callback of a query owner, lines 163-219)
QueryUnsubscribe(s, inst) ==
  IF s.ownerByQueryKey # inst[1] THEN s
  ELSE LET waiting == s.assignQueryOwnerFunctionsByKey
           hasNext == Len(waiting) > 0
           s1 == [s EXCEPT
                    !.assignQueryOwnerFunctionsByKey =
                       IF hasNext THEN Tail(waiting) ELSE waiting,
                    !.ownerByQueryKey = NoOwner]
           s2 == IF hasNext THEN QueryTakeOwnership(s1, Head(waiting))
                 ELSE LET handle == s1.unsubscribeFunctionsByQueryKey
                          s3 == [s1 EXCEPT !.unsubscribeFunctionsByQueryKey = 0]
                      IN IF handle = 0 THEN Throw(s3, "no unsubscribe function")
                         ELSE callUnsubscribe(s3, handle)
       IN IF s2.err # "none" THEN s2
          ELSE IF ~s2.lastQueryResultByKey.set
               THEN Throw(s2, "last query result is not iterable")
               ELSE ReassignQueryDocs(s2, inst[1], s2.lastQueryResultByKey.docs)

\* listen (lines 225-236)
QueryListen(s, inst) ==
  LET s1 == [s EXCEPT !.assignQueryOwnerFunctionsByKey = Append(@, inst)]
      lastDocs == s.lastQueryResultByKey
  IN IF lastDocs.set THEN InvokeOnDocs(s1, inst, lastDocs.docs) ELSE s1

\* unregister (lines 275-294)
QueryUnregister(s, inst) ==
  LET s1 == QueryRemoveListener(s, inst) IN
  IF s1.err # "none" THEN s1
  ELSE IF s1.ownerByQueryKey = inst[1]
       THEN [s1 EXCEPT !.timers = Append(@, [kind |-> "query", inst |-> inst])]
       ELSE QueryIgnoreOwnershipRequests(s1, inst)

\* registerQueryHook: the body of the registration call
registerQueryHook(s, inst) ==
  LET s1 == [s EXCEPT !.queryListenersByKey = Append(@, inst)] IN
  IF s1.ownerByQueryKey # NoOwner
  THEN QueryListen(s1, inst)
  ELSE QuerySubscribe(s1, inst)

registerQueryHookCachedResults(s) ==
  IF s.ownerByQueryKey # NoOwner THEN s.lastQueryResultByKey ELSE NoResult

\* ------------------------------------------------------------------
\* QueryService.registerQueryHook and its closures (lib/QueryService.ts)
\* ------------------------------------------------------------------

\* the snapshot callback of the query subscription (lines 95-116)
QsOnSnapshot(s, handle, store) ==
  LET docs == QueryDocs(store)
      s1 == [s EXCEPT !.lastQueryResultByKey = [set |-> TRUE, docs |-> docs]]
  IN NotifyQueryListeners(s1, s1.queryListenersByKey, docs)

\* ignoreOwnershipRequests (lines 192-208): returns when the function is gone
QsIgnoreOwnershipRequests(s, inst) ==
  LET index == IndexOf(s.assignQueryOwnerFunctionsByKey, inst) IN
  IF index = 0 THEN s
  ELSE [s EXCEPT !.assignQueryOwnerFunctionsByKey = RemoveAt(@, index)]

\* takeOwnership (lines 183-186)
QsTakeOwnership(s, inst) ==
  QsIgnoreOwnershipRequests([s EXCEPT !.ownerByQueryKey = inst[1]], inst)

\* A faulty QsUnsubscribe: the subscription is shut down although a hook waits.
QsUnsubscribeNoHandOff(s, inst) ==
  IF s.ownerByQueryKey # inst[1] THEN s
  ELSE LET s1 == [s EXCEPT !.ownerByQueryKey = NoOwner]
           handle == s1.unsubscribeFunctionsByQueryKey
           s3 == [s1 EXCEPT !.unsubscribeFunctionsByQueryKey = 0]
       IN IF handle = 0 THEN Throw(s3, "no unsubscribe function")
          ELSE callUnsubscribe(s3, handle)

\* unsubscribe (the grace-timer callback, lines 126-160)
QsUnsubscribe(s, inst) ==
  IF s.ownerByQueryKey # inst[1] THEN s
  ELSE LET waiting == s.assignQueryOwnerFunctionsByKey
           hasNext == Len(waiting) > 0
           s1 == [s EXCEPT
                    !.assignQueryOwnerFunctionsByKey =
                       IF hasNext THEN Tail(waiting) ELSE waiting,
                    !.ownerByQueryKey = NoOwner]
       IN IF hasNext THEN QsTakeOwnership(s1, Head(waiting))
          ELSE LET handle == s1.unsubscribeFunctionsByQueryKey
                   s3 == [s1 EXCEPT !.unsubscribeFunctionsByQueryKey = 0]
               IN IF handle = 0 THEN Throw(s3, "no unsubscribe function")
                  ELSE callUnsubscribe(s3, handle)

\* unregister (lines 214-233)
QsUnregister(s, inst) ==
  LET s1 == QueryRemoveListener(s, inst) IN
  IF s1.err # "none" THEN s1
  ELSE IF s1.ownerByQueryKey = inst[1]
       THEN [s1 EXCEPT !.timers = Append(@, [kind |-> "query", inst |-> inst])]
       ELSE QsIgnoreOwnershipRequests(s1, inst)

\* QueryService.registerQueryHook: the body of the registration call; listen
\* and subscribe are the same as in SubscriptionService
QsRegisterQueryHook(s, inst) ==
  LET s1 == [s EXCEPT !.queryListenersByKey = Append(@, inst)] IN
  IF s1.ownerByQueryKey # NoOwner
  THEN QueryListen(s1, inst)
  ELSE QuerySubscribe(s1, inst)

\* ------------------------------------------------------------------
\* ChunkedSnapshotListener (lib/ChunkedSnapshotListener.ts)
\* A listener is a record of the heap `listeners`; l is its index. The state
\* record cs holds the CollectionService fields, the listeners and the store's
\* chunk subscriptions.
\* ------------------------------------------------------------------
ChunkSize == 30

Contains(seq, x) == \E i \in 1..Len(seq) : seq[i] = x

Range(seq) == {seq[i] : i \in 1..Len(seq)}

\* Set.add for each element, in order: a Set keeps insertion order
RECURSIVE AddAll(_, _)
AddAll(ids, new) ==
  IF new = <<>> THEN ids
  ELSE AddAll(IF Contains(ids, Head(new)) THEN ids ELSE Append(ids, Head(new)),
              Tail(new))

\* helpers/chunk: consecutive slices of at most size elements
RECURSIVE chunk(_, _)
chunk(ids, size) ==
  IF ids = <<>> THEN <<>>
  ELSE IF Len(ids) <= size THEN <<ids>>
  ELSE <<SubSeq(ids, 1, size)>> \o chunk(SubSeq(ids, size + 1, Len(ids)), size)

NewListener(initialIds) ==
  [ids |-> AddAll(<<>>, initialIds), chunks |-> <<>>, chunkIsLoaded |-> <<>>,
   unsubscribes |-> <<>>, status |-> "waiting", isLoaded |-> FALSE]

\* firebase onSnapshot on the query of one chunk
ChunkOnSnapshot(cs, l, chunkIndex, ids) ==
  [cs EXCEPT
     !.chunkSubs = Append(@, [listener |-> l, chunk |-> chunkIndex, ids |-> ids,
                              live |-> TRUE, first |-> FALSE, seen |-> {}]),
     !.storeCalls = Append(@, <<"subscribe", Len(cs.chunkSubs) + 1>>)]

ChunkUnsubscribe(cs, handle) ==
  [cs EXCEPT !.chunkSubs[handle].live = FALSE,
             !.chunkSubs[handle].first = FALSE,
             !.chunkSubs[handle].seen = {},
             !.storeCalls = Append(@, <<"unsubscribe", handle>>)]

\* the body of the loop of subscribeNewChunks (lines 67-89)
CslSubscribeOneChunk(cs, l, ids) ==
  LET chunkIndex == Len(cs.listeners[l].chunks) + 1
      cs1 == ChunkOnSnapshot(cs, l, chunkIndex, ids)
  IN [cs1 EXCEPT !.listeners[l].chunks = Append(@, ids),
                 !.listeners[l].unsubscribes = Append(@, Len(cs1.chunkSubs)),
                 !.listeners[l].chunkIsLoaded = Append(@, FALSE)]

RECURSIVE CslSubscribeEach(_, _, _)
CslSubscribeEach(cs, l, newChunks) ==
  IF newChunks = <<>> THEN cs
  ELSE CslSubscribeEach(CslSubscribeOneChunk(cs, l, Head(newChunks)), l,
                        Tail(newChunks))

\* subscribeNewChunks (lines 64-90)
CslSubscribeNewChunks(cs, l, ids) ==
  CslSubscribeEach(cs, l, chunk(ids, ChunkSize))

\* A faulty CslStart: one subscription for all the ids, however many.
CslStartOneSubscription(cs, l) ==
  CslSubscribeOneChunk([cs EXCEPT !.listeners[l].status = "started"], l,
                       cs.listeners[l].ids)

\* start (lines 52-62)
CslStart(cs, l) ==
  CslSubscribeNewChunks([cs EXCEPT !.listeners[l].status = "started"], l,
                        cs.listeners[l].ids)

\* resubscribe (lines 190-218)
CslResubscribe(cs, l, chunkIndex, ids) ==
  LET cs1 == ChunkUnsubscribe(cs, cs.listeners[l].unsubscribes[chunkIndex])
      cs2 == [cs1 EXCEPT !.listeners[l].chunkIsLoaded[chunkIndex] = FALSE,
                         !.listeners[l].isLoaded = FALSE]
      cs3 == ChunkOnSnapshot(cs2, l, chunkIndex, ids)
  IN [cs3 EXCEPT !.listeners[l].chunks[chunkIndex] = ids,
                 !.listeners[l].unsubscribes[chunkIndex] = Len(cs3.chunkSubs)]

\* the ids of newIds that the listener does not hold yet (lines 103-105)
IdsToSubscribe(cs, l, newIds) ==
  LET IsNew(id) == ~Contains(cs.listeners[l].ids, id) IN SelectSeq(newIds, IsNew)

\* A faulty CslAddIds: ids that arrive during the waiting period are dropped.
CslAddIdsDroppedWhileWaiting(cs, l, newIds) ==
  IF cs.listeners[l].status = "stopped" THEN Throw(cs, "listener was shut down")
  ELSE LET idsToSubscribe == IdsToSubscribe(cs, l, newIds)
           cs1 == [cs EXCEPT !.listeners[l].ids = AddAll(@, idsToSubscribe)]
       IN IF cs.listeners[l].status = "waiting" THEN cs
          ELSE IF idsToSubscribe = <<>> THEN cs1
          ELSE CslSubscribeNewChunks(cs1, l, idsToSubscribe)

\* A faulty CslAddIds: a waiting listener subscribes the new ids at once.
CslAddIdsSubscribesWhileWaiting(cs, l, newIds) ==
  IF cs.listeners[l].status = "stopped" THEN Throw(cs, "listener was shut down")
  ELSE LET idsToSubscribe == IdsToSubscribe(cs, l, newIds)
           cs1 == [cs EXCEPT !.listeners[l].ids = AddAll(@, idsToSubscribe)]
       IN IF idsToSubscribe = <<>> THEN cs1
          ELSE CslSubscribeNewChunks(cs1, l, idsToSubscribe)

\* addIds (lines 96-175)
CslAddIds(cs, l, newIds) ==
  IF cs.listeners[l].status = "stopped" THEN Throw(cs, "listener was shut down")
  ELSE LET idsToSubscribe == IdsToSubscribe(cs, l, newIds)
           cs1 == [cs EXCEPT !.listeners[l].ids = AddAll(@, idsToSubscribe)]
           chunks == cs1.listeners[l].chunks
           lastChunkIndex == Len(chunks)
       IN IF cs1.listeners[l].status = "waiting" \/ idsToSubscribe = <<>> THEN cs1
          ELSE IF lastChunkIndex = 0
               THEN CslSubscribeNewChunks(cs1, l, idsToSubscribe)
               ELSE LET lastChunk == chunks[lastChunkIndex]
                        spaceLeftInLastChunk == ChunkSize - Len(lastChunk)
                        n == Len(idsToSubscribe)
                        cut == IF spaceLeftInLastChunk < n
                               THEN spaceLeftInLastChunk ELSE n
                        idsForLastChunk == SubSeq(idsToSubscribe, 1, cut)
                        idsForFutureChunks == SubSeq(idsToSubscribe, cut + 1, n)
                        cs2 == IF idsForLastChunk # <<>>
                               THEN CslResubscribe(cs1, l, lastChunkIndex,
                                                   lastChunk \o idsForLastChunk)
                               ELSE cs1
                    IN IF idsForFutureChunks # <<>>
                       THEN CslSubscribeNewChunks(cs2, l, idsForFutureChunks)
                       ELSE cs2

RECURSIVE CslUnsubscribeEach(_, _)
CslUnsubscribeEach(cs, handles) ==
  IF handles = <<>> THEN cs
  ELSE CslUnsubscribeEach(ChunkUnsubscribe(cs, Head(handles)), Tail(handles))

\* shutDown (lines 220-230)
CslShutDown(cs, l) ==
  [CslUnsubscribeEach(cs, cs.listeners[l].unsubscribes)
     EXCEPT !.listeners[l].status = "stopped"]

\* the bookkeeping of the listener's handleSnapshot (lines 179-185)
CslMarkLoaded(cs, l, chunkIndex) ==
  LET cs1 == [cs EXCEPT !.listeners[l].chunkIsLoaded[chunkIndex] = TRUE]
      loaded == cs1.listeners[l].chunkIsLoaded
  IN IF ~cs1.listeners[l].isLoaded /\ \A i \in 1..Len(loaded) : loaded[i]
     THEN [cs1 EXCEPT !.listeners[l].isLoaded = TRUE]
     ELSE cs1

\* ------------------------------------------------------------------
\* CollectionService (the chunked draft) on one collection path
\* ------------------------------------------------------------------
AllIds == 1..33
\* the ids no document of the collection ever has
NeverIds == {33}
\* the documents somebody writes or deletes while the hooks are mounted
WrittenIds == {1}
\* as many ids as one chunk holds
FullChunk == [i \in 1..30 |-> i]
\* one id less than a chunk holds
AlmostFullChunk == [i \in 1..29 |-> i]
IdLists ==
  {<<>>, <<32>>, <<33>>, <<31, 33>>, <<31, 31>>, FullChunk, AlmostFullChunk}
NoIds == [set |-> FALSE, ids |-> <<>>]

Cached(cs, id) == cs.docsCacheByCollectionPath[id] # -1

CachedDocument(cs, id) ==
  [id |-> id, data |-> cs.docsCacheByCollectionPath[id], path |-> "none"]

DocsOf(cs, ids) == [i \in 1..Len(ids) |-> CachedDocument(cs, ids[i])]

MissingIds(cs, ids) ==
  LET IsMissing(id) == ~Cached(cs, id) IN SelectSeq(ids, IsMissing)

InvokeOnError(cs, inst, missingIds) ==
  [cs EXCEPT !.calls = Append(@, [kind |-> "onError", inst |-> inst, doc |-> NoDoc,
                                  docs |-> <<>>, ids |-> missingIds])]

InvokeOnDocsUndefined(cs, inst) ==
  [cs EXCEPT !.calls = Append(@, [kind |-> "onDocsUndefined", inst |-> inst,
                                  doc |-> NoDoc, docs |-> <<>>, ids |-> <<>>])]

\* helpers/intersect of two arrays: the elements of the shorter one that are
\* in the other, each once
intersect(a, b) ==
  LET base == IF Len(b) < Len(a) THEN b ELSE a
      other == IF Len(b) < Len(a) THEN a ELSE b
      Keep(i) == /\ Contains(other, base[i])
                 /\ \A j \in 1..(i - 1) : base[j] # base[i]
      kept == {i \in 1..Len(base) : Keep(i)}
      RECURSIVE Build(_)
      Build(i) == IF i > Len(base) THEN <<>>
                  ELSE (IF i \in kept THEN <<base[i]>> ELSE <<>>) \o Build(i + 1)
  IN Build(1)

\* the change records of a snapshot update the cache (lines 238-259)
ApplyChanges(cs, dirty, removed) ==
  [cs EXCEPT !.docsCacheByCollectionPath =
     [id \in AllIds |->
        IF id \in removed THEN -1
        ELSE IF \E c \in dirty : c[1] = id
             THEN (CHOOSE c \in dirty : c[1] = id)[2]
             ELSE @[id]]]

\* A document's data has two fields, a and b, each absent (0) or holding 1 or
\* 2; the data is the number a + 3 * b.
FieldA(data) == data % 3
FieldB(data) == data \div 3

\* A faulty ApplyChange: the record's fields are merged into the cached
\* document.
ApplyChangeMerging(cs, change) ==
  LET old == cs.docsCacheByCollectionPath[change.id]
      Pick(new, kept) == IF new = 0 THEN kept ELSE new
  IN IF change.type = "removed"
     THEN [cs EXCEPT !.docsCacheByCollectionPath[change.id] = -1]
     ELSE IF old = -1
     THEN [cs EXCEPT !.docsCacheByCollectionPath[change.id] = change.data]
     ELSE [cs EXCEPT !.docsCacheByCollectionPath[change.id] =
             Pick(FieldA(change.data), FieldA(old))
               + 3 * Pick(FieldB(change.data), FieldB(old))]

\* one change record of a snapshot updates the cache (the switch of lines
\* 239-258): added and modified store { id, ...data }, removed deletes
ApplyChange(cs, change) ==
  IF change.type = "removed"
  THEN [cs EXCEPT !.docsCacheByCollectionPath[change.id] = -1]
  ELSE [cs EXCEPT !.docsCacheByCollectionPath[change.id] = change.data]

\* the loop over querySnapshot.docChanges() (lines 238-259)
RECURSIVE ApplyChangeRecords(_, _)
ApplyChangeRecords(cs, changes) ==
  IF changes = <<>> THEN cs
  ELSE ApplyChangeRecords(ApplyChange(cs, Head(changes)), Tail(changes))

\* dirtyIds: the ids of the added and modified records, in the order pushed
DirtyIdsOf(changes) ==
  LET IsDirty(c) == c.type # "removed"
      kept == SelectSeq(changes, IsDirty)
  IN [i \in 1..Len(kept) |-> kept[i].id]

\* the loop over the collection's subscriptions (lines 267-341); it returns
\* after the first error it reports
RECURSIVE CsNotifyHooks(_, _, _)
CsNotifyHooks(cs, subs, dirtyIds) ==
  IF subs = <<>> THEN cs
  ELSE LET sub == Head(subs)
           wanted == cs.docIdsByHookId[sub.hookId]
           hookIds == wanted.ids
           missingIds == MissingIds(cs, hookIds)
           registry == cs.snapshotListenersByCollectionPath
       IN IF ~wanted.set THEN Throw(cs, "TypeError: ids of the hook are undefined")
          ELSE IF intersect(dirtyIds, hookIds) = <<>>
          THEN IF registry = 0 THEN Throw(cs, "TypeError: listener is undefined")
               ELSE IF missingIds # <<>> /\ cs.listeners[registry].isLoaded
               THEN InvokeOnError(cs, sub.inst, missingIds)
               ELSE CsNotifyHooks(cs, Tail(subs), dirtyIds)
          ELSE CsNotifyHooks(
                 IF missingIds # <<>> THEN InvokeOnDocsUndefined(cs, sub.inst)
                 ELSE InvokeOnDocs(cs, sub.inst, DocsOf(cs, hookIds)),
                 Tail(subs), dirtyIds)

SortedSeq(S) ==
  LET RECURSIVE Sort(_)
      Sort(T) == IF T = {} THEN <<>>
                 ELSE LET m == CHOOSE x \in T : \A y \in T : x <= y
                      IN <<m>> \o Sort(T \ {m})
  IN Sort(S)

\* CollectionService.handleSnapshot (lines 221-342)
CsHandleSnapshot(cs, dirty, removed) ==
  LET cs1 == ApplyChanges(cs, dirty, removed)
      dirtyIds == SortedSeq({c[1] : c \in dirty})
  IN CsNotifyHooks(cs1, cs1.subscriptionsByCollectionPath, dirtyIds)

\* the snapshot callback the listener gives to the store (lines 177-188)
CslHandleSnapshot(cs, l, chunkIndex, dirty, removed) ==
  CsHandleSnapshot(CslMarkLoaded(cs, l, chunkIndex), dirty, removed)

\* the callback of setTimeout(..., 1) in registerDocsHook (lines 200-203)
CsStartTimer(cs, l) == CslStart(cs, l)

\* unregister (lines 130-175)
CsUnregister(cs, inst) ==
  LET subs == cs.subscriptionsByCollectionPath
      HasHook(i) == subs[i].hookId = inst[1]
      index == IF \E i \in 1..Len(subs) : HasHook(i)
               THEN CHOOSE i \in 1..Len(subs) :
                      HasHook(i) /\ \A j \in 1..(i - 1) : ~HasHook(j)
               ELSE 0
  IN IF index = 0 THEN Throw(cs, "listener already gone")
     ELSE LET cs1 == [cs EXCEPT
                        !.subscriptionsByCollectionPath = RemoveAt(@, index),
                        !.docIdsByHookId[inst[1]] = NoIds]
              listener == cs1.snapshotListenersByCollectionPath
          IN IF Len(cs1.subscriptionsByCollectionPath) > 0 THEN cs1
             ELSE IF listener = 0 THEN Throw(cs1, "no unsubscribe function")
             ELSE CslShutDown([cs1 EXCEPT !.snapshotListenersByCollectionPath = 0],
                              listener)

\* A faulty registerDocsHook: every registration creates a listener of its own.
registerDocsHookOwnListener(cs, inst, ids) ==
  [cs EXCEPT
     !.subscriptionsByCollectionPath =
        Append(@, [hookId |-> inst[1], inst |-> inst]),
     !.docIdsByHookId[inst[1]] = [set |-> TRUE, ids |-> ids],
     !.listeners = Append(@, NewListener(ids)),
     !.snapshotListenersByCollectionPath = Len(cs.listeners) + 1,
     !.startTimers = Append(@, Len(cs.listeners) + 1)]

\* registerDocsHook (lines 70-219), called with an array of ids
registerDocsHook(cs, inst, ids) ==
  LET existingListener == cs.snapshotListenersByCollectionPath
      cs1 == [cs EXCEPT
                !.subscriptionsByCollectionPath =
                   Append(@, [hookId |-> inst[1], inst |-> inst]),
                !.docIdsByHookId[inst[1]] = [set |-> TRUE, ids |-> ids]]
  IN IF existingListener # 0 THEN CslAddIds(cs1, existingListener, ids)
     ELSE [cs1 EXCEPT
             !.listeners = Append(@, NewListener(ids)),
             !.snapshotListenersByCollectionPath = Len(cs.listeners) + 1,
             !.startTimers = Append(@, Len(cs.listeners) + 1)]

\* CollectionService.handleSnapshot (lines 221-342) on the change records of
\* a snapshot
CsHandleChangeRecords(cs, changes) ==
  LET cs1 == ApplyChangeRecords(cs, changes)
  IN CsNotifyHooks(cs1, cs1.subscriptionsByCollectionPath, DirtyIdsOf(changes))

\* registerDocsHook (lines 70-122) called with ids undefined: the subscription
\* is pushed at line 108, the check of ids at line 118 throws
registerDocsHookWithoutIds(cs, inst) ==
  Throw([cs EXCEPT !.subscriptionsByCollectionPath =
                      Append(@, [hookId |-> inst[1], inst |-> inst])],
        "registerDocsHook must receive an array of ids")

\* A faulty registerDocsHookCachedDocs: documents are returned although some
\* are missing.
registerDocsHookCachedDocsAlways(cs, ids) ==
  [set |-> TRUE, docs |-> DocsOf(cs, ids)]

\* the cachedDocs returned by registerDocsHook (lines 206-218)
registerDocsHookCachedDocs(cs, ids) ==
  IF MissingIds(cs, ids) = <<>> THEN [set |-> TRUE, docs |-> DocsOf(cs, ids)]
  ELSE NoResult

\* updateDocIds (lines 344-390)
updateDocIds(cs, hookId, ids) ==
  LET cs1 == [cs EXCEPT !.docIdsByHookId[hookId] = [set |-> TRUE, ids |-> ids]]
      someDocsUncached == MissingIds(cs1, ids) # <<>>
      listener == cs1.snapshotListenersByCollectionPath
      cs2 == IF listener = 0 THEN Throw(cs1, "TypeError: listener is undefined")
             ELSE CslAddIds(cs1, listener, ids)
      subs == cs2.subscriptionsByCollectionPath
      found == {i \in 1..Len(subs) : subs[i].hookId = hookId}
  IN IF cs2.err # "none" \/ someDocsUncached THEN cs2
     ELSE IF found = {} THEN Throw(cs2, "no subscription was found")
     ELSE LET first == CHOOSE i \in found : \A j \in found : i <= j
          IN InvokeOnDocs(cs2, subs[first].inst, DocsOf(cs2, ids))

\* ------------------------------------------------------------------
\* deleteDocs (lib/deleteDocs.ts)
\* The store holds three collections; a document is [exists, tagId,
\* highlightIds]. A write batch is the sequence of its operations.
\* ------------------------------------------------------------------
BatchLimit == 500

MaxTags == 1001
TagIds == 1..MaxTags
HighlightIds == {11, 12}
DocumentIds == {21, 22}
IdsOf(collection) ==
  IF collection = "tags" THEN TagIds
  ELSE IF collection = "highlights" THEN HighlightIds
  ELSE DocumentIds

\* new BatchOfBatches(firestore) (lines 49-58)
NewBatchOfBatches ==
  [batches |-> <<>>, currentBatch |-> <<>>, operationCount |-> 0, err |-> "none"]

\* A faulty incrementOperation: the batch is closed an operation too late.
incrementOperationLate(b) ==
  IF b.operationCount + 1 <= BatchLimit
  THEN [b EXCEPT !.operationCount = @ + 1]
  ELSE [b EXCEPT !.batches = Append(@, b.currentBatch),
                 !.currentBatch = <<>>,
                 !.operationCount = 0]

\* BatchOfBatches.incrementOperation (lines 60-67)
incrementOperation(b) ==
  IF b.operationCount + 1 < BatchLimit
  THEN [b EXCEPT !.operationCount = @ + 1]
  ELSE [b EXCEPT !.batches = Append(@, b.currentBatch),
                 !.currentBatch = <<>>,
                 !.operationCount = 0]

\* batches.currentBatch.delete(ref) or .update(ref, data), then
\* batches.incrementOperation()
AddOperation(b, op) ==
  incrementOperation([b EXCEPT !.currentBatch = Append(@, op)])

DeleteOp(collection, id) ==
  [type |-> "delete", collection |-> collection, id |-> id,
   field |-> "none", data |-> <<>>]

UpdateOp(collection, id, field, data) ==
  [type |-> "update", collection |-> collection, id |-> id,
   field |-> field, data |-> data]

\* the loops that delete a list of documents (lines 32-36 and 96-99)
\* (the list is walked from left to right, one half after the other)
RECURSIVE AddDeletes(_, _, _)
AddDeletes(b, collection, ids) ==
  IF ids = <<>> THEN b
  ELSE IF Len(ids) = 1 THEN AddOperation(b, DeleteOp(collection, ids[1]))
  ELSE LET half == Len(ids) \div 2
           b1 == AddDeletes(b, collection, SubSeq(ids, 1, half))
       IN IF b1.err # "none" THEN b1
          ELSE AddDeletes(b1, collection, SubSeq(ids, half + 1, Len(ids)))

\* A faulty WhereIn: every document of the collection is found.
WhereInAll(fs, collection, field, ids) ==
  SortedSeq({id \in IdsOf(collection) : fs[collection][id].exists})

\* getDocs(query(collection, where(field, "in", ids))): the ids of the
\* documents found, in id order
WhereIn(fs, collection, field, ids) ==
  SortedSeq({id \in IdsOf(collection) :
               /\ fs[collection][id].exists
               /\ fs[collection][id][field] \in Range(ids)})

\* getDocs(query(collection, where(field, "array-contains-any", ids)))
WhereArrayContainsAny(fs, collection, field, ids) ==
  SortedSeq({id \in IdsOf(collection) :
               /\ fs[collection][id].exists
               /\ Range(fs[collection][id][field]) \cap Range(ids) # {}})

\* the loop over docsReferencingDeletedIds (lines 112-129)
RECURSIVE AddScrubs(_, _, _, _, _, _)
AddScrubs(b, fs, collection, field, docs, idsToDelete) ==
  IF docs = <<>> THEN b
  ELSE LET idsToScrub == fs[collection][Head(docs)][field]
           Kept(id) == ~Contains(idsToDelete, id)
           scrubbedIds == SelectSeq(idsToScrub, Kept)
       IN AddScrubs(
            AddOperation(b, UpdateOp(collection, Head(docs), field, scrubbedIds)),
            fs, collection, field, Tail(docs), idsToDelete)

\* addAssociationOperationsToBatches (lines 70-136)
RECURSIVE addAssociationOperationsToBatches(_, _, _, _)
addAssociationOperationsToBatches(b, fs, associations, idsToDelete) ==
  IF Len(idsToDelete) < 1 \/ associations = <<>> \/ b.err # "none" THEN b
  ELSE LET association == Head(associations)
           b1 ==
             IF association.type = "delete-associated-docs"
             THEN LET associatedIds == WhereIn(fs, association.collection,
                                               association.field, idsToDelete)
                  IN AddDeletes(
                       addAssociationOperationsToBatches(
                         b, fs, association.associations, associatedIds),
                       association.collection, associatedIds)
             ELSE IF association.type = "remove-from-ids"
             THEN AddScrubs(b, fs, association.collection, association.field,
                            WhereArrayContainsAny(fs, association.collection,
                                                  association.field, idsToDelete),
                            idsToDelete)
             ELSE [b EXCEPT !.err = "Unknown association type"]
       IN addAssociationOperationsToBatches(b1, fs, Tail(associations),
                                            idsToDelete)

\* andRemoveFromIds (lines 138-148) and andDeleteAssociatedDocs (150-161)
andRemoveFromIds(collection, key) ==
  [type |-> "remove-from-ids", collection |-> collection, field |-> key,
   associations |-> <<>>]

andDeleteAssociatedDocs(collection, key, associations) ==
  [type |-> "delete-associated-docs", collection |-> collection, field |-> key,
   associations |-> associations]

\* deleteDocs up to its first commit (lines 21-37): the operations are queued
QueueOperations(fs, collection, idsToDelete, associations) ==
  AddDeletes(
    addAssociationOperationsToBatches(NewBatchOfBatches, fs, associations,
                                      idsToDelete),
    collection, idsToDelete)

\* one document after its operations, in their order
RECURSIVE ApplyOperations(_, _)
ApplyOperations(document, ops) ==
  IF ops = <<>> THEN document
  ELSE LET op == Head(ops)
       IN ApplyOperations(
            IF op.type = "delete" THEN [document EXCEPT !.exists = FALSE]
            ELSE [document EXCEPT ![op.field] = op.data],
            Tail(ops))

\* batch.commit() resolved: the store has applied the operations of the
\* batch, each document taking its own in the order of the batch
Commit(fs, batch) ==
  [collection \in DOMAIN fs |->
     [id \in DOMAIN fs[collection] |->
        LET Mine(op) == op.collection = collection /\ op.id = id
        IN ApplyOperations(fs[collection][id], SelectSeq(batch, Mine))]]

\* the stores deleteDocs runs against: every tag exists, a highlight exists
\* with a tag or not at all, a document lists highlights
TagDoc == [exists |-> TRUE, tagId |-> 0, highlightIds |-> <<>>]
HighlightDocs ==
  {[exists |-> TRUE, tagId |-> 1, highlightIds |-> <<>>],
   [exists |-> TRUE, tagId |-> 2, highlightIds |-> <<>>],
   [exists |-> FALSE, tagId |-> 0, highlightIds |-> <<>>]}
DocumentDoc(highlightIds) ==
  [exists |-> TRUE, tagId |-> 0, highlightIds |-> highlightIds]
Stores ==
  [tags : {[id \in TagIds |-> TagDoc]},
   highlights : [HighlightIds -> HighlightDocs],
   documents : {[id \in DocumentIds |-> DocumentDoc(IF id = 21 THEN a ELSE b)] :
                  a \in {<<>>, <<11>>, <<11, 12>>, <<12, 99>>},
                  b \in {<<12>>, <<99>>}}]
PlainStore ==
  [tags |-> [id \in TagIds |-> TagDoc],
   highlights |-> [id \in HighlightIds |->
                     [exists |-> TRUE, tagId |-> 1, highlightIds |-> <<>>]],
   documents |-> [id \in DocumentIds |->
                    DocumentDoc(IF id = 21 THEN <<11, 12>> ELSE <<99>>)]]

\* a Firestore without a document in the three collections
EmptyStore == [tags |-> <<>>, highlights |-> <<>>, documents |-> <<>>]

NoCall == [collection |-> "none", idsToDelete |-> <<>>, associations |-> <<>>,
           before |-> EmptyStore]

\* ------------------------------------------------------------------
\* Actions: hooks mounting and unmounting, timers, the store
\* ------------------------------------------------------------------
NoInst == <<"none", 0>>

TotalRegs == LET RECURSIVE Sum(_)
                 Sum(S) == IF S = {} THEN 0
                           ELSE LET h == CHOOSE x \in S : TRUE IN gen[h] + Sum(S \ {h})
             IN Sum(Hooks)

Op(name, inst, handle, doc, result) ==
  [op |-> name, inst |-> inst, handle |-> handle, cachedDoc |-> doc,
   cachedResults |-> result, ids |-> <<>>, listener |-> 0, status |-> "none",
   docsBefore |-> lastDocByPath, ownersBefore |-> ownerByDocPath,
   waitingBefore |-> [p \in Paths |-> <<>>],
   before |-> NewListener(<<>>), returned |-> <<>>, dirtyIds |-> <<>>,
   changes |-> <<>>, cacheBefore |-> <<>>,
   queries |-> <<>>, keys |-> <<>>, seenBefore |-> NoResult,
   queueBefore |-> <<>>,
   wasOwner |-> IF inst[1] \in DocHooks THEN ownerByDocPath[PathOf(inst[1])] = inst[1]
                ELSE ownerByQueryKey = inst[1]]

SvcIdle ==
  /\ ownerByDocPath = [p \in Paths |-> NoOwner]
  /\ unsubscribeFunctionsByDocPath = [p \in Paths |-> 0]
  /\ docListenersByPath = [p \in Paths |-> <<>>]
  /\ lastDocByPath = [p \in Paths |-> NoDoc]
  /\ assignDocOwnerFunctionsByPath = [p \in Paths |-> <<>>]
  /\ ownerByQueryKey = NoOwner
  /\ unsubscribeFunctionsByQueryKey = 0
  /\ queryListenersByKey = <<>>
  /\ lastQueryResultByKey = NoResult
  /\ assignQueryOwnerFunctionsByKey = <<>>
  /\ timers = <<>>
  /\ subscriptions = <<>>
  /\ storeDocs = [p \in Paths |-> [data |-> 0, inQuery |-> TRUE, exists |-> TRUE]]

CsIdle ==
  /\ snapshotListenersByCollectionPath = 0
  /\ subscriptionsByCollectionPath = <<>>
  /\ docsCacheByCollectionPath = [id \in AllIds |-> -1]
  /\ docIdsByHookId = [h \in CollHooks |-> NoIds]
  /\ listeners = <<>>
  /\ startTimers = <<>>
  /\ chunkSubs = <<>>
  /\ collDocs = [id \in AllIds |-> [exists |-> id \notin NeverIds, data |-> 0]]
  /\ asked = <<>>
  /\ errorsSeen = [h \in CollHooks |-> {}]
  /\ updates = 0
  /\ wasShutDown = {}

HooksIdle ==
  /\ gen = [h \in Hooks |-> 0]
  /\ registered = [h \in Hooks |-> FALSE]
  /\ calls = <<>>
  /\ storeCalls = <<>>
  /\ err = "none"
  /\ lastOp = Op("init", NoInst, 0, NoDoc, NoResult)

\* deleteDocs has not been called
DelQuiet ==
  /\ batches = <<>>
  /\ currentBatch = <<>>
  /\ operationCount = 0
  /\ delPc = "idle"
  /\ nextBatch = 1
  /\ commits = <<>>
  /\ delCall = NoCall

DelIdle == DelQuiet /\ firestore = EmptyStore

\* a DocsProvider with the SubscriptionService
SvcInit == SvcIdle /\ CsIdle /\ HooksIdle /\ DelIdle /\ service = "subscription"

\* a DocsProvider with the QueryService
QsInit == SvcIdle /\ CsIdle /\ HooksIdle /\ DelIdle /\ service = "query"

\* a DocsProvider with the CollectionService
CsInit == SvcIdle /\ CsIdle /\ HooksIdle /\ DelIdle /\ service = "collection"

\* useDoc's effect: a hook that is not registered registers (again)
RegisterDocHook(h, limit) ==
  /\ ~registered[h]
  /\ TotalRegs < limit
  /\ LET inst == <<h, gen[h] + 1>> IN
     /\ Apply(registerDocHook(Cur, inst, PathOf(h)))
     /\ lastOp' = Op("registerDocHook", inst, 0,
                     registerDocHookCachedDoc(Cur, PathOf(h)), NoResult)
  /\ gen' = [gen EXCEPT ![h] = @ + 1]
  /\ registered' = [registered EXCEPT ![h] = TRUE]
  /\ UNCHANGED storeDocs

\* useDoc's effect cleanup: the unregister returned by the registration
UnregisterDocHook(h) ==
  /\ registered[h]
  /\ LET inst == <<h, gen[h]>> IN
     /\ Apply(DocUnregister(Cur, inst, PathOf(h)))
     /\ lastOp' = Op("unregisterDoc", inst, 0, NoDoc, NoResult)
  /\ registered' = [registered EXCEPT ![h] = FALSE]
  /\ UNCHANGED <<storeDocs, gen>>

RegisterQueryHook(h, limit) ==
  /\ ~registered[h]
  /\ TotalRegs < limit
  /\ LET inst == <<h, gen[h] + 1>> IN
     /\ Apply(registerQueryHook(Cur, inst))
     /\ lastOp' = Op("registerQueryHook", inst, 0, NoDoc,
                     registerQueryHookCachedResults(Cur))
  /\ gen' = [gen EXCEPT ![h] = @ + 1]
  /\ registered' = [registered EXCEPT ![h] = TRUE]
  /\ UNCHANGED storeDocs

UnregisterQueryHook(h) ==
  /\ registered[h]
  /\ LET inst == <<h, gen[h]>> IN
     /\ Apply(QueryUnregister(Cur, inst))
     /\ lastOp' = Op("unregisterQuery", inst, 0, NoDoc, NoResult)
  /\ registered' = [registered EXCEPT ![h] = FALSE]
  /\ UNCHANGED <<storeDocs, gen>>

\* setTimeout(unsubscribe, UNSUBSCRIBE_DELAY): all timers have the same delay,
\* so they fire in the order in which they were set
FireTimer ==
  /\ timers # <<>>
  /\ LET t == Head(timers)
         s == [Cur EXCEPT !.timers = Tail(timers)]
     IN /\ Apply(IF t.kind = "doc" THEN DocUnsubscribe(s, t.inst, PathOf(t.inst[1]))
                 ELSE QueryUnsubscribe(s, t.inst))
        /\ lastOp' = [Op("timer", t.inst, 0, NoDoc, NoResult) EXCEPT
                        !.waitingBefore = assignDocOwnerFunctionsByPath,
                        !.queueBefore = assignQueryOwnerFunctionsByKey]
  /\ UNCHANGED <<storeDocs, gen, registered>>

\* what the store delivers: the document of a path, the result of the query
DocSnapshot(path) ==
  [set |-> TRUE,
   docs |-> IF storeDocs[path].exists
            THEN <<[id |-> path, data |-> storeDocs[path].data, path |-> "none"]>>
            ELSE <<>>]

QuerySnapshot == [set |-> TRUE, docs |-> QueryDocs(storeDocs)]

\* the store delivers the snapshot it owes to a live document subscription
DeliverDocSnapshot(handle) ==
  /\ subscriptions[handle].kind = "doc"
  /\ subscriptions[handle].live
  /\ subscriptions[handle].pending
  /\ LET path == PathOf(subscriptions[handle].inst[1])
         s == [Cur EXCEPT !.subscriptions[handle].pending = FALSE,
                          !.subscriptions[handle].seen = DocSnapshot(path)]
     IN /\ Apply(DocOnSnapshot(s, path, storeDocs[path]))
        /\ lastOp' = Op("docSnapshot", subscriptions[handle].inst, handle,
                        NoDoc, NoResult)
  /\ UNCHANGED <<storeDocs, gen, registered>>

DeliverQuerySnapshot(handle) ==
  /\ subscriptions[handle].kind = "query"
  /\ subscriptions[handle].live
  /\ subscriptions[handle].pending
  /\ LET s == [Cur EXCEPT !.subscriptions[handle].pending = FALSE,
                          !.subscriptions[handle].seen = QuerySnapshot]
     IN /\ Apply(QueryOnSnapshot(s, handle, storeDocs))
        /\ lastOp' = [Op("querySnapshot", subscriptions[handle].inst, handle,
                         NoDoc, NoResult)
                        EXCEPT !.waitingBefore = assignDocOwnerFunctionsByPath,
                               !.seenBefore = subscriptions[handle].seen]
  /\ UNCHANGED <<storeDocs, gen, registered>>

\* the live subscriptions that owe a snapshot once the document at path
\* changed to doc: the document's own, and the query's when its result changed
StoreChange(path, doc) ==
  LET InResult(d) == d.inQuery /\ d.exists
      old == storeDocs[path]
      Affected(sub) ==
        /\ sub.live
        /\ \/ sub.kind = "doc" /\ PathOf(sub.inst[1]) = path
                /\ <<old.exists, old.data>> # <<doc.exists, doc.data>>
           \/ sub.kind = "query"
                /\ \/ InResult(old) # InResult(doc)
                   \/ InResult(doc) /\ old.data # doc.data
  IN /\ storeDocs' = [storeDocs EXCEPT ![path] = doc]
     /\ subscriptions' =
          [i \in 1..Len(subscriptions) |->
             IF Affected(subscriptions[i])
             THEN [subscriptions[i] EXCEPT !.pending = TRUE]
             ELSE subscriptions[i]]
     /\ calls' = <<>> /\ storeCalls' = <<>> /\ err' = "none"
     /\ UNCHANGED <<ownerByDocPath, unsubscribeFunctionsByDocPath,
                    docListenersByPath, lastDocByPath,
                    assignDocOwnerFunctionsByPath, ownerByQueryKey,
                    unsubscribeFunctionsByQueryKey, queryListenersByKey,
                    lastQueryResultByKey, assignQueryOwnerFunctionsByKey, timers,
                    gen, registered, service, csVars, delVars>>

\* somebody writes the document (and creates it when it was deleted)
StoreWrite(path) ==
  /\ storeDocs[path].data < MaxVersion
  /\ StoreChange(path, [storeDocs[path] EXCEPT !.data = @ + 1, !.exists = TRUE])
  /\ lastOp' = Op("storeWrite", NoInst, 0, NoDoc, NoResult)

\* somebody deletes the document
StoreDelete(path) ==
  /\ storeDocs[path].exists
  /\ StoreChange(path, [storeDocs[path] EXCEPT !.exists = FALSE])
  /\ lastOp' = Op("storeDelete", NoInst, 0, NoDoc, NoResult)

\* a write that makes the document enter or leave the query's result
StoreMoveInQuery(path) ==
  /\ StoreChange(path, [storeDocs[path] EXCEPT !.inQuery = ~@])
  /\ lastOp' = Op("storeMove", NoInst, 0, NoDoc, NoResult)

\* --- QueryService: the same hooks against lib/QueryService.ts
QsRegister(h) ==
  /\ ~registered[h]
  /\ TotalRegs < MaxRegs
  /\ LET inst == <<h, gen[h] + 1>> IN
     /\ Apply(QsRegisterQueryHook(Cur, inst))
     /\ lastOp' = Op("registerQueryHook", inst, 0, NoDoc,
                     registerQueryHookCachedResults(Cur))
  /\ gen' = [gen EXCEPT ![h] = @ + 1]
  /\ registered' = [registered EXCEPT ![h] = TRUE]
  /\ UNCHANGED storeDocs

QsUnregisterHook(h) ==
  /\ registered[h]
  /\ LET inst == <<h, gen[h]>> IN
     /\ Apply(QsUnregister(Cur, inst))
     /\ lastOp' = Op("unregisterQuery", inst, 0, NoDoc, NoResult)
  /\ registered' = [registered EXCEPT ![h] = FALSE]
  /\ UNCHANGED <<storeDocs, gen>>

QsFireTimer ==
  /\ timers # <<>>
  /\ LET t == Head(timers)
         s == [Cur EXCEPT !.timers = Tail(timers)]
     IN /\ Apply(QsUnsubscribe(s, t.inst))
        /\ lastOp' = Op("timer", t.inst, 0, NoDoc, NoResult)
  /\ UNCHANGED <<storeDocs, gen, registered>>

QsDeliverSnapshot(handle) ==
  /\ subscriptions[handle].kind = "query"
  /\ subscriptions[handle].live
  /\ subscriptions[handle].pending
  /\ LET s == [Cur EXCEPT !.subscriptions[handle].pending = FALSE,
                          !.subscriptions[handle].seen = QuerySnapshot]
     IN /\ Apply(QsOnSnapshot(s, handle, storeDocs))
        /\ lastOp' = Op("querySnapshot", subscriptions[handle].inst, handle,
                        NoDoc, NoResult)
  /\ UNCHANGED <<storeDocs, gen, registered>>

\* --- CollectionService: hooks asking for documents of one collection by id
CsCur ==
  [snapshotListenersByCollectionPath |-> snapshotListenersByCollectionPath,
   subscriptionsByCollectionPath |-> subscriptionsByCollectionPath,
   docsCacheByCollectionPath |-> docsCacheByCollectionPath,
   docIdsByHookId |-> docIdsByHookId,
   listeners |-> listeners,
   startTimers |-> startTimers,
   chunkSubs |-> chunkSubs,
   calls |-> <<>>, storeCalls |-> <<>>, err |-> "none"]

\* the ids each hook was told, by onError, to have no document
ErrorsAfter(cs, base) ==
  [h \in CollHooks |->
     base[h] \cup UNION {Range(cs.calls[i].ids) :
                           i \in {j \in 1..Len(cs.calls) :
                                    /\ cs.calls[j].kind = "onError"
                                    /\ cs.calls[j].inst = <<h, gen[h]>>}}]

CsApply(cs) ==
  /\ snapshotListenersByCollectionPath' = cs.snapshotListenersByCollectionPath
  /\ subscriptionsByCollectionPath' = cs.subscriptionsByCollectionPath
  /\ docsCacheByCollectionPath' = cs.docsCacheByCollectionPath
  /\ docIdsByHookId' = cs.docIdsByHookId
  /\ listeners' = cs.listeners
  /\ startTimers' = cs.startTimers
  /\ chunkSubs' = cs.chunkSubs
  /\ calls' = cs.calls
  /\ storeCalls' = cs.storeCalls
  /\ err' = cs.err
  /\ UNCHANGED <<svcVars, service, delVars>>

CsOp(name, inst, handle, ids, l, result) ==
  [Op(name, inst, handle, NoDoc, result) EXCEPT
     !.ids = ids, !.listener = l,
     !.status = IF l = 0 THEN "none" ELSE listeners[l].status,
     !.before = IF l = 0 THEN NewListener(<<>>) ELSE listeners[l]]

\* the ids handed to listener l, kept next to the listeners
Ask(l, ids) ==
  IF l = 0 THEN Append(asked, Range(ids))
  ELSE [asked EXCEPT ![l] = @ \cup Range(ids)]

\* useDocs' registerHook effect
CsRegisterDocsHook(h, ids, limit) ==
  /\ ~registered[h]
  /\ TotalRegs + updates < limit
  /\ LET inst == <<h, gen[h] + 1>>
         l == snapshotListenersByCollectionPath
     IN /\ CsApply(registerDocsHook(CsCur, inst, ids))
        /\ lastOp' = [CsOp("registerDocsHook", inst, 0, ids, l,
                           registerDocsHookCachedDocs(CsCur, ids))
                        EXCEPT !.returned = IF l = 0 THEN <<>>
                                            ELSE IdsToSubscribe(CsCur, l, ids)]
        /\ asked' = Ask(l, ids)
  /\ gen' = [gen EXCEPT ![h] = @ + 1]
  /\ registered' = [registered EXCEPT ![h] = TRUE]
  /\ errorsSeen' = [errorsSeen EXCEPT ![h] = {}]
  /\ UNCHANGED <<collDocs, updates, wasShutDown>>

\* the cleanup of useDocs' registerHook effect
CsUnregisterDocsHook(h) ==
  /\ registered[h]
  /\ LET inst == <<h, gen[h]>>
         l == snapshotListenersByCollectionPath
         cs == CsUnregister(CsCur, inst)
     IN /\ CsApply(cs)
        /\ lastOp' = CsOp("unregisterDocs", inst, 0, <<>>, l, NoResult)
        /\ wasShutDown' = IF l # 0 /\ cs.listeners[l].status = "stopped"
                          THEN wasShutDown \cup {l} ELSE wasShutDown
  /\ registered' = [registered EXCEPT ![h] = FALSE]
  /\ UNCHANGED <<collDocs, gen, asked, errorsSeen, updates>>

\* useDocs' updateDocIds effect: the ids of a mounted hook changed
CsUpdateDocIds(h, ids, limit) ==
  /\ registered[h]
  /\ docIdsByHookId[h].ids # ids
  /\ TotalRegs + updates < limit
  /\ updates' = updates + 1
  /\ LET l == snapshotListenersByCollectionPath
         cs == updateDocIds(CsCur, h, ids)
     IN /\ CsApply(cs)
        /\ lastOp' = [CsOp("updateDocIds", <<h, gen[h]>>, 0, ids, l, NoResult)
                        EXCEPT !.returned = IF l = 0 THEN <<>>
                                            ELSE IdsToSubscribe(CsCur, l, ids)]
        /\ asked' = IF l = 0 THEN asked ELSE Ask(l, ids)
  /\ errorsSeen' = [errorsSeen EXCEPT ![h] = {}]
  /\ UNCHANGED <<collDocs, gen, registered, wasShutDown>>

\* the 1 ms timers fire in the order in which they were set
CsFireStartTimer ==
  /\ startTimers # <<>>
  /\ LET l == Head(startTimers)
         cs == [CsCur EXCEPT !.startTimers = Tail(startTimers)]
     IN /\ CsApply(CsStartTimer(cs, l))
        /\ lastOp' = CsOp("startTimer", NoInst, 0, <<>>, l, NoResult)
  /\ UNCHANGED <<collDocs, gen, registered, asked, errorsSeen, updates,
                 wasShutDown>>

\* what the query of a chunk subscription matches in the store
ChunkResult(sub) ==
  {<<id, collDocs[id].data>> : id \in {i \in Range(sub.ids) : collDocs[i].exists}}

\* the store delivers a snapshot to a live chunk subscription: the first one,
\* or one whose result differs from the one delivered last
CsDeliverChunkSnapshot(handle) ==
  /\ chunkSubs[handle].live
  /\ ~chunkSubs[handle].first \/ chunkSubs[handle].seen # ChunkResult(chunkSubs[handle])
  /\ LET sub == chunkSubs[handle]
         result == ChunkResult(sub)
         dirty == result \ sub.seen
         removed == {c[1] : c \in sub.seen} \ {c[1] : c \in result}
         cs == [CsCur EXCEPT !.chunkSubs[handle].first = TRUE,
                             !.chunkSubs[handle].seen = result]
         after == CslHandleSnapshot(cs, sub.listener, sub.chunk, dirty, removed)
     IN /\ CsApply(after)
        /\ lastOp' = [CsOp("chunkSnapshot", NoInst, handle, sub.ids, sub.listener,
                           NoResult)
                        EXCEPT !.dirtyIds = SortedSeq({c[1] : c \in dirty})]
        /\ errorsSeen' = ErrorsAfter(after, errorsSeen)
  /\ UNCHANGED <<collDocs, gen, registered, asked, updates, wasShutDown>>

CsQuiet(name) ==
  /\ calls' = <<>> /\ storeCalls' = <<>> /\ err' = "none"
  /\ lastOp' = CsOp(name, NoInst, 0, <<>>, 0, NoResult)
  /\ UNCHANGED <<svcVars, service, delVars, gen, registered,
                 snapshotListenersByCollectionPath, subscriptionsByCollectionPath,
                 docsCacheByCollectionPath, docIdsByHookId, listeners, startTimers,
                 chunkSubs, asked, errorsSeen, updates, wasShutDown>>

\* somebody writes a document of the collection
CsStoreWrite(id) ==
  /\ collDocs[id].exists
  /\ collDocs[id].data < CsMaxVersion
  /\ collDocs' = [collDocs EXCEPT ![id].data = @ + 1]
  /\ CsQuiet("storeWrite")

\* --- ChunkedSnapshotListener driven through its own methods: one listener,
\* whose owner has scheduled start()
LsAddIds(ids) ==
  /\ updates < LsMaxCalls
  /\ updates' = updates + 1
  /\ CsApply(CslAddIds(CsCur, 1, ids))
  /\ lastOp' = [CsOp("addIds", NoInst, 0, ids, 1, NoResult)
                  EXCEPT !.returned = IdsToSubscribe(CsCur, 1, ids)]
  /\ UNCHANGED <<collDocs, gen, registered, asked, errorsSeen, wasShutDown>>

LsShutDown ==
  /\ listeners[1].status # "stopped"
  /\ CsApply(CslShutDown(CsCur, 1))
  /\ lastOp' = CsOp("shutDown", NoInst, 0, <<>>, 1, NoResult)
  /\ wasShutDown' = wasShutDown \cup {1}
  /\ UNCHANGED <<collDocs, gen, registered, asked, errorsSeen, updates>>

\* ------------------------------------------------------------------
\* Specifications
\* ------------------------------------------------------------------

\* doc hooks only, on one document path (SubscriptionService.registerDocHook)
DocNext ==
  \/ \E h \in DocHooks : RegisterDocHook(h, MaxRegs)
  \/ \E h \in DocHooks : UnregisterDocHook(h)
  \/ FireTimer
  \/ \E handle \in 1..Len(subscriptions) : DeliverDocSnapshot(handle)
  \/ \E p \in Paths : StoreWrite(p)
  \/ \E p \in Paths : StoreDelete(p)

DocSpec == SvcInit /\ [][DocNext]_vars

\* query hooks only, against QueryService
QsNext ==
  \/ \E h \in QueryHooks : QsRegister(h)
  \/ \E h \in QueryHooks : QsUnregisterHook(h)
  \/ QsFireTimer
  \/ \E handle \in 1..Len(subscriptions) : QsDeliverSnapshot(handle)
  \/ \E p \in Paths : StoreWrite(p)
  \/ \E p \in Paths : StoreDelete(p)
  \/ \E p \in Paths : StoreMoveInQuery(p)

QsSpec == QsInit /\ [][QsNext]_vars

\* doc hooks and query hooks together, against SubscriptionService
SvcDocHooks == {"d1", "d2"}

SvcNext ==
  \/ \E h \in SvcDocHooks : RegisterDocHook(h, SvcMaxRegs)
  \/ \E h \in SvcDocHooks : UnregisterDocHook(h)
  \/ \E h \in QueryHooks : RegisterQueryHook(h, SvcMaxRegs)
  \/ \E h \in QueryHooks : UnregisterQueryHook(h)
  \/ FireTimer
  \/ \E handle \in 1..Len(subscriptions) : DeliverDocSnapshot(handle)
  \/ \E handle \in 1..Len(subscriptions) : DeliverQuerySnapshot(handle)
  \/ \E p \in Paths : StoreWrite(p)
  \/ \E p \in Paths : StoreMoveInQuery(p)

SvcSpec == SvcInit /\ [][SvcNext]_vars

\* either service with the hooks of its kind on one key
KeyInit ==
  SvcIdle /\ CsIdle /\ HooksIdle /\ DelIdle /\ service \in {"subscription", "query"}

KeyNext ==
  \/ service = "subscription" /\ DocNext
  \/ service = "query" /\ QsNext

KeySpec == KeyInit /\ [][KeyNext]_vars

\* hooks asking for documents by id, against CollectionService
CsNext ==
  \/ \E h \in CollHooks, ids \in IdLists : CsRegisterDocsHook(h, ids, CsMaxRegs)
  \/ \E h \in CollHooks : CsUnregisterDocsHook(h)
  \/ \E h \in CollHooks, ids \in IdLists : CsUpdateDocIds(h, ids, CsMaxRegs)
  \/ CsFireStartTimer
  \/ \E handle \in 1..Len(chunkSubs) : CsDeliverChunkSnapshot(handle)
  \/ \E id \in WrittenIds : CsStoreWrite(id)

CsSpec == CsInit /\ [][CsNext]_vars

\* the same hooks over a longer life: hooks that come, go and come back, with
\* few id lists
ChurnIdLists == {<<>>, <<32>>, <<31, 33>>}

CsChurnNext ==
  \/ \E h \in CollHooks, ids \in ChurnIdLists :
       CsRegisterDocsHook(h, ids, CsChurnMaxRegs)
  \/ \E h \in CollHooks : CsUnregisterDocsHook(h)
  \/ \E h \in CollHooks, ids \in ChurnIdLists :
       CsUpdateDocIds(h, ids, CsChurnMaxRegs)
  \/ CsFireStartTimer
  \/ \E handle \in 1..Len(chunkSubs) : CsDeliverChunkSnapshot(handle)
  \/ \E id \in WrittenIds : CsStoreWrite(id)

CsChurnSpec == CsInit /\ [][CsChurnNext]_vars

\* one ChunkedSnapshotListener, constructed with any of the id lists
LsInit ==
  /\ SvcIdle /\ HooksIdle /\ DelIdle /\ service = "listener"
  /\ snapshotListenersByCollectionPath = 0
  /\ subscriptionsByCollectionPath = <<>>
  /\ docsCacheByCollectionPath = [id \in AllIds |-> -1]
  /\ docIdsByHookId = [h \in CollHooks |-> NoIds]
  /\ listeners \in {<<NewListener(ids)>> : ids \in IdLists}
  /\ startTimers = <<1>>
  /\ chunkSubs = <<>>
  /\ collDocs = [id \in AllIds |-> [exists |-> id \notin NeverIds, data |-> 0]]
  /\ asked = <<>>
  /\ errorsSeen = [h \in CollHooks |-> {}]
  /\ updates = 0
  /\ wasShutDown = {}

LsNext ==
  \/ \E ids \in IdLists : LsAddIds(ids)
  \/ LsShutDown
  \/ CsFireStartTimer
  \/ \E handle \in 1..Len(chunkSubs) : CsDeliverChunkSnapshot(handle)
  \/ \E id \in WrittenIds : CsStoreWrite(id)

LsSpec == LsInit /\ [][LsNext]_vars

\* any of the three services, with the hooks of its kind on one key
AnyInit ==
  /\ SvcIdle /\ CsIdle /\ HooksIdle /\ DelIdle
  /\ service \in {"subscription", "query", "collection"}

AnyNext ==
  \/ service = "subscription" /\ DocNext
  \/ service = "query" /\ QsNext
  \/ service = "collection" /\ CsNext

AnySpec == AnyInit /\ [][AnyNext]_vars

\* a caller hands registerDocsHook no id array; the call throws, so the
\* caller holds no unregister()
CsRegisterDocsHookWithoutIds(h, limit) ==
  /\ ~registered[h]
  /\ TotalRegs + updates < limit
  /\ LET inst == <<h, gen[h] + 1>>
         l == snapshotListenersByCollectionPath
     IN /\ CsApply(registerDocsHookWithoutIds(CsCur, inst))
        /\ lastOp' = CsOp("registerDocsHookWithoutIds", inst, 0, <<>>, l, NoResult)
  /\ gen' = [gen EXCEPT ![h] = @ + 1]
  /\ UNCHANGED <<collDocs, registered, asked, errorsSeen, updates, wasShutDown>>

\* the collection hooks, some of them registering without ids
CsWithoutIdsNext ==
  \/ \E h \in CollHooks, ids \in ChurnIdLists :
       CsRegisterDocsHook(h, ids, CsChurnMaxRegs)
  \/ \E h \in CollHooks : CsRegisterDocsHookWithoutIds(h, CsChurnMaxRegs)
  \/ \E h \in CollHooks : CsUnregisterDocsHook(h)
  \/ CsFireStartTimer
  \/ \E handle \in 1..Len(chunkSubs) : CsDeliverChunkSnapshot(handle)
  \/ \E id \in WrittenIds : CsStoreWrite(id)

CsWithoutIdsSpec == CsInit /\ [][CsWithoutIdsNext]_vars

\* somebody deletes a document of the collection
CsStoreDelete(id) ==
  /\ collDocs[id].exists
  /\ collDocs' = [collDocs EXCEPT ![id].exists = FALSE]
  /\ CsQuiet("storeDelete")

\* the collection hooks while the documents they ask for are written and
\* deleted
StoreMaxRegs == 2
StoreIds == {31, 32}
StoreIdLists == {<<31>>, <<32>>, <<31, 32>>}

CsStoreNext ==
  \/ \E h \in CollHooks, ids \in StoreIdLists :
       CsRegisterDocsHook(h, ids, StoreMaxRegs)
  \/ \E h \in CollHooks : CsUnregisterDocsHook(h)
  \/ \E h \in CollHooks, ids \in StoreIdLists :
       CsUpdateDocIds(h, ids, StoreMaxRegs)
  \/ CsFireStartTimer
  \/ \E handle \in 1..Len(chunkSubs) : CsDeliverChunkSnapshot(handle)
  \/ \E id \in StoreIds : CsStoreWrite(id)
  \/ \E id \in StoreIds : CsStoreDelete(id)

CsStoreSpec == CsInit /\ [][CsStoreNext]_vars

\* ------------------------------------------------------------------
\* serializeQuery, the draft that sorts the filters
\* A string is a sequence of characters; a character is a string of length 1.
\* ------------------------------------------------------------------
Chars ==
  <<"\"", "&", "(", ")", "+", ",", "/", "1", "5", ":", "=", "?",
    "A", "D", "E", "F", "L", "N", "O", "R", "U", "V", "_", "a", "b", "c", "d", "e", "f", "h", "i", "l", "m", "n",
    "o", "p", "r", "s", "t", "u", "x", "y">>

\* the characters in the order of their UTF-16 code units
CharCode(c) == CHOOSE i \in 1..Len(Chars) : Chars[i] = c

\* a < b as JavaScript compares strings
RECURSIVE StringLess(_, _)
StringLess(a, b) ==
  IF b = <<>> THEN FALSE
  ELSE IF a = <<>> THEN TRUE
  ELSE IF Head(a) = Head(b) THEN StringLess(Tail(a), Tail(b))
  ELSE CharCode(Head(a)) < CharCode(Head(b))

\* Array.prototype.join
RECURSIVE Join(_, _)
Join(strings, sep) ==
  IF strings = <<>> THEN <<>>
  ELSE IF Len(strings) = 1 THEN strings[1]
  ELSE strings[1] \o sep \o Join(Tail(strings), sep)

\* A faulty Sorted: the strings are left in the order given.
SortedKeepsOrder(strings) == strings

\* Array.prototype.sort of strings (line 50)
Sorted(strings) ==
  LET RECURSIVE Sort(_)
      Sort(rest) ==
        IF rest = <<>> THEN <<>>
        ELSE LET least == CHOOSE i \in 1..Len(rest) :
                            \A j \in 1..Len(rest) :
                              /\ ~StringLess(rest[j], rest[i])
                              /\ rest[j] = rest[i] => i <= j
             IN <<rest[least]>> \o Sort(RemoveAt(rest, least))
  IN Sort(strings)

\* String.prototype.replace('"', '"'): the first double quote is replaced by
\* a double quote
ReplaceQuote(s) ==
  IF \E i \in 1..Len(s) : s[i] = "\""
  THEN LET first == CHOOSE i \in 1..Len(s) :
                      s[i] = "\"" /\ \A j \in 1..(i - 1) : s[j] # "\""
       IN SubSeq(s, 1, first - 1) \o <<"\"">> \o SubSeq(s, first + 1, Len(s))
  ELSE s

\* serialize (lines 146-169) and serializeValue (lines 207-225). A value is
\* [t, s, values]: t its JavaScript type, s its characters (for a number or a
\* boolean, the characters of String(value)), values the ValueObjects of a
\* ValuesObject.
RECURSIVE serialize(_)
serializeValue(value) ==
  IF value.key = "booleanValue" THEN value.s
  ELSE IF value.key = "stringValue"
  THEN serialize([t |-> "string", s |-> value.s, values |-> <<>>])
  ELSE IF value.key = "integerValue" THEN value.s
  ELSE IF value.key = "nullValue"
  THEN serialize([t |-> "string", s |-> value.s, values |-> <<>>])
  ELSE IF value.key = "doubleValue"
  THEN serialize([t |-> "number", s |-> value.s, values |-> <<>>])
  ELSE value.s

serialize(value) ==
  IF value.t = "string"
     /\ value.s = <<"N", "U", "L", "L", "_", "V", "A", "L", "U", "E">>
  THEN <<"n", "u", "l", "l">>
  ELSE IF value.t = "string"
  THEN <<"\"">> \o ReplaceQuote(value.s) \o <<"\"">>
  ELSE IF value.t \in {"number", "null", "undefined", "boolean"}
  THEN value.s
  ELSE Join([i \in 1..Len(value.values) |-> serializeValue(value.values[i])],
            <<",">>)

\* Object.values(value)[0] of a filter's value (line 88). A ValueObject is
\* [key, s, values]: key the one property it has.
FirstValue(value) ==
  IF value.key \in {"stringValue", "integerValue", "nullValue", "referenceValue"}
  THEN [t |-> "string", s |-> value.s, values |-> <<>>]
  ELSE IF value.key = "booleanValue"
  THEN [t |-> "boolean", s |-> value.s, values |-> <<>>]
  ELSE IF value.key = "doubleValue"
  THEN [t |-> "number", s |-> value.s, values |-> <<>>]
  ELSE [t |-> "object", s |-> <<>>, values |-> value.values]

\* serializeFilter (lines 81-89)
serializeFilter(filter) ==
  Join(filter.field.segments, <<"/">>) \o <<"+">> \o filter.op \o <<"+">>
    \o serialize(FirstValue(filter.value))

\* String.prototype.toUpperCase on the letters of and, or
toUpperCase(s) ==
  LET Upper(c) == IF c = "a" THEN "A" ELSE IF c = "n" THEN "N"
                  ELSE IF c = "d" THEN "D" ELSE IF c = "o" THEN "O"
                  ELSE IF c = "r" THEN "R" ELSE c
  IN [i \in 1..Len(s) |-> Upper(s[i])]

\* serializeCompoundFilter (lines 96-100)
serializeCompoundFilter(filter) ==
  toUpperCase(filter.op) \o <<"(">>
    \o Join([i \in 1..Len(filter.filters) |-> serializeFilter(filter.filters[i])],
            <<",">>)
    \o <<")">>

isSingleFilter(filter) == filter.filters = <<>>

\* serializeQuery (lines 32-74); startAt and endAt are null
serializeQuery(query) ==
  LET path == Join(query.path.segments, <<"/">>)
      orders == Join([i \in 1..Len(query.explicitOrderBy) |->
                        Join(query.explicitOrderBy[i].field.segments, <<"/">>)
                          \o <<":">>
                          \o query.explicitOrderBy[i].dir],
                     <<",">>)
      filters == Sorted([i \in 1..Len(query.filters) |->
                           IF isSingleFilter(query.filters[i])
                           THEN serializeFilter(query.filters[i])
                           ELSE serializeCompoundFilter(query.filters[i])])
      p1 == IF orders # <<>>
            THEN <<<<"o", "r", "d", "e", "r", "=">> \o orders>> ELSE <<>>
      p2 == IF filters # <<>>
            THEN <<<<"f", "i", "l", "t", "e", "r", "=">>
                     \o Join(filters, <<"&", "f", "i", "l", "t", "e", "r", "=">>)>>
            ELSE <<>>
      p3 == IF query.limit.t # "null"
            THEN << <<"l", "i", "m", "i", "t", "=">> \o serialize(query.limit),
                    <<"l", "i", "m", "i", "t", "T", "y", "p", "e", "=">>
                      \o serialize(query.limitType) >>
            ELSE <<>>
      parameters == p1 \o p2 \o p3
  IN path \o <<"?">> \o Join(parameters, <<"&">>)

\* the queries handed to serializeQuery
MaxFilters == 2
StringValue(s) == [key |-> "stringValue", s |-> s, values |-> <<>>]
IntegerValue(s) == [key |-> "integerValue", s |-> s, values |-> <<>>]
ArrayValue(values) == [key |-> "arrayValue", s |-> <<>>, values |-> values]
Where(field, op, value) ==
  [field |-> [segments |-> <<field>>], op |-> op, value |-> value,
   filters |-> <<>>]
Or(filters) ==
  [field |-> [segments |-> <<>>], op |-> <<"o", "r">>,
   value |-> StringValue(<<>>), filters |-> filters]

\* where("a", "==", "x"), where("a", "==", 5), where("a", "==", "5"),
\* where("b", "==", ["x", "y"]), where("b", "==", 'x","y') and
\* or(where("a", "==", "x"), where("a", "==", "5"))
FilterPool ==
  { Where(<<"a">>, <<"=", "=">>, StringValue(<<"x">>)),
    Where(<<"a">>, <<"=", "=">>, IntegerValue(<<"5">>)),
    Where(<<"a">>, <<"=", "=">>, StringValue(<<"5">>)),
    Where(<<"b">>, <<"=", "=">>,
          ArrayValue(<<StringValue(<<"x">>), StringValue(<<"y">>)>>)),
    Where(<<"b">>, <<"=", "=">>, StringValue(<<"x", "\"", ",", "\"", "y">>)),
    Or(<<Where(<<"a">>, <<"=", "=">>, StringValue(<<"x">>)),
         Where(<<"a">>, <<"=", "=">>, StringValue(<<"5">>))>>) }

NoLimit == [t |-> "null", s |-> <<"n", "u", "l", "l">>, values |-> <<>>]

Queries ==
  [path : {[segments |-> <<<<"s">>>>], [segments |-> <<<<"s">>, <<"1">>, <<"t">>>>]},
   explicitOrderBy : {<<>>, <<[dir |-> <<"a", "s", "c">>,
                               field |-> [segments |-> <<<<"a">>>>]]>>},
   filters : UNION {[1..n -> FilterPool] : n \in 0..MaxFilters},
   limit : {NoLimit, [t |-> "number", s |-> <<"1">>, values |-> <<>>]},
   limitType : {[t |-> "string", s |-> <<"F">>, values |-> <<>>]}]

\* two hooks hold a query each
KeyOfInit ==
  /\ SvcIdle /\ CsIdle /\ DelIdle /\ service = "serializeQuery"
  /\ gen = [h \in Hooks |-> 0]
  /\ registered = [h \in Hooks |-> FALSE]
  /\ calls = <<>>
  /\ storeCalls = <<>>
  /\ err = "none"
  /\ \E q1, q2 \in Queries :
       lastOp = [Op("useQuery", NoInst, 0, NoDoc, NoResult)
                   EXCEPT !.queries = <<q1, q2>>]

\* the hooks serialize their queries into keys
SerializeQueries ==
  /\ lastOp.op = "useQuery"
  /\ lastOp' = [Op("serializeQuery", NoInst, 0, NoDoc, NoResult)
                  EXCEPT !.queries = lastOp.queries,
                         !.keys = <<serializeQuery(lastOp.queries[1]),
                                    serializeQuery(lastOp.queries[2])>>]
  /\ UNCHANGED <<svcVars, csVars, delVars, gen, registered, calls,
                 storeCalls, err, service>>

KeyOfNext == SerializeQueries

KeyOfSpec == KeyOfInit /\ [][KeyOfNext]_vars

\* ------------------------------------------------------------------
\* deleteDocs: the call and the commits of its batches
\* ------------------------------------------------------------------
\* the batch deleteDocs commits k-th: batches.batches in order (lines 40-42),
\* then batches.currentBatch (lines 44-46)
BatchAt(k) == IF k <= Len(batches) THEN batches[k] ELSE currentBatch

\* deleteDocs moves on to commit k: it calls commit() on the k-th batch, or
\* returns when the loop is over and the current batch is empty
MoveOnTo(k, b, log) ==
  IF k <= Len(b.batches) \/ (k = Len(b.batches) + 1 /\ b.operationCount > 0)
  THEN /\ delPc' = "committing"
       /\ nextBatch' = k
       /\ commits' = Append(log, [kind |-> "start", batch |-> k])
  ELSE /\ delPc' = "resolved"
       /\ nextBatch' = k
       /\ commits' = log

\* the numbers of ids a caller deletes at once
IdCounts == {499, 500, 501, 999, 1000, 1001}
IdLists500 == {[i \in 1..n |-> i] : n \in IdCounts}
FewIdLists == {<<>>, <<1>>, <<2>>, <<1, 2>>, <<1, 1>>}

\* deleteDocs(tags, ids, andDeleteAssociatedDocs(highlights, "tagId",
\*   andRemoveFromIds(documents, "highlightIds")))
Cascade ==
  <<andDeleteAssociatedDocs("highlights", "tagId",
                            <<andRemoveFromIds("documents", "highlightIds")>>)>>

\* deleteDocs is called (lines 21-40): it queues its operations and calls
\* commit() on the first batch
DeleteDocs(idsToDelete, associations) ==
  /\ delPc = "idle"
  /\ idsToDelete \in IdLists500 => firestore = PlainStore /\ associations = <<>>
  /\ LET b == QueueOperations(firestore, "tags", idsToDelete, associations)
     IN /\ batches' = b.batches
        /\ currentBatch' = b.currentBatch
        /\ operationCount' = b.operationCount
        /\ MoveOnTo(1, b, <<>>)
  /\ delCall' = [collection |-> "tags", idsToDelete |-> idsToDelete,
                 associations |-> associations, before |-> firestore]
  /\ lastOp' = Op("deleteDocs", NoInst, 0, NoDoc, NoResult)
  /\ UNCHANGED <<firestore, svcVars, csVars, gen, registered, calls, storeCalls,
                 err, service>>

\* A faulty CommitRejected: deleteDocs goes on to the next batch.
CommitRejectedGoesOn ==
  /\ delPc = "committing"
  /\ MoveOnTo(nextBatch + 1,
              [batches |-> batches, operationCount |-> operationCount],
              Append(commits, [kind |-> "reject", batch |-> nextBatch]))
  /\ lastOp' = Op("commitRejected", NoInst, 0, NoDoc, NoResult)
  /\ UNCHANGED <<firestore, batches, currentBatch, operationCount, delCall,
                 svcVars, csVars, gen, registered, calls, storeCalls, err,
                 service>>

\* the commit awaited resolves (lines 41 and 45): the store has applied the
\* batch, deleteDocs goes on to the next one
CommitResolved ==
  /\ delPc = "committing"
  /\ firestore' = Commit(firestore, BatchAt(nextBatch))
  /\ MoveOnTo(nextBatch + 1,
              [batches |-> batches, operationCount |-> operationCount],
              Append(commits, [kind |-> "resolve", batch |-> nextBatch]))
  /\ lastOp' = Op("commitResolved", NoInst, 0, NoDoc, NoResult)
  /\ UNCHANGED <<batches, currentBatch, operationCount, delCall,
                 svcVars, csVars, gen, registered, calls, storeCalls, err,
                 service>>

\* the commit awaited rejects: the await throws and deleteDocs rejects
CommitRejected ==
  /\ delPc = "committing"
  /\ delPc' = "rejected"
  /\ commits' = Append(commits, [kind |-> "reject", batch |-> nextBatch])
  /\ lastOp' = Op("commitRejected", NoInst, 0, NoDoc, NoResult)
  /\ UNCHANGED <<firestore, batches, currentBatch, operationCount, nextBatch,
                 delCall, svcVars, csVars, gen, registered, calls, storeCalls,
                 err, service>>

DelInit ==
  /\ SvcIdle /\ CsIdle /\ HooksIdle /\ DelQuiet /\ service = "deleteDocs"
  /\ firestore \in Stores

DelNext ==
  \/ \E ids \in FewIdLists \cup IdLists500, associations \in {<<>>, Cascade} :
       DeleteDocs(ids, associations)
  \/ CommitResolved
  \/ CommitRejected

DelSpec == DelInit /\ [][DelNext]_vars

\* the change records a snapshot may carry
MaxChanges == 2
ChangeIds == {31, 32}
ChangeData == {1, 3, 5}
ChangeRecords ==
  [type : {"added", "modified", "removed"}, id : ChangeIds, data : ChangeData]
ChangeSeqs == UNION {[1..n -> ChangeRecords] : n \in 0..MaxChanges}

\* handleSnapshot is called with a snapshot of any change records
CsHandleSnapshotOf(changes) ==
  /\ CsApply(CsHandleChangeRecords(CsCur, changes))
  /\ lastOp' = [CsOp("handleSnapshot", NoInst, 0, <<>>,
                     snapshotListenersByCollectionPath, NoResult)
                  EXCEPT !.changes = changes,
                         !.dirtyIds = DirtyIdsOf(changes),
                         !.cacheBefore = docsCacheByCollectionPath]
  /\ UNCHANGED <<collDocs, gen, registered, asked, errorsSeen, updates,
                 wasShutDown>>

\* the cache of a collection under snapshots of any change records
CacheNext == \E changes \in ChangeSeqs : CsHandleSnapshotOf(changes)

CacheSpec == CsInit /\ [][CacheNext]_vars

\* the registrations of hook h whose unregister() was called already
Unregistered(h) ==
  {<<h, g>> : g \in {k \in 1..gen[h] : k < gen[h] \/ ~registered[h]}}

\* a component calls the unregister() of a registration a second time
UnregisterDocHookAgain(h) ==
  /\ \E inst \in Unregistered(h) :
       /\ Apply(DocUnregister(Cur, inst, PathOf(h)))
       /\ lastOp' = Op("unregisterAgain", inst, 0, NoDoc, NoResult)
  /\ UNCHANGED <<storeDocs, gen, registered>>

QsUnregisterHookAgain(h) ==
  /\ \E inst \in Unregistered(h) :
       /\ Apply(QsUnregister(Cur, inst))
       /\ lastOp' = Op("unregisterAgain", inst, 0, NoDoc, NoResult)
  /\ UNCHANGED <<storeDocs, gen, registered>>

CsUnregisterDocsHookAgain(h) ==
  /\ \E inst \in Unregistered(h) :
       LET l == snapshotListenersByCollectionPath
           cs == CsUnregister(CsCur, inst)
       IN /\ CsApply(cs)
          /\ lastOp' = CsOp("unregisterAgain", inst, 0, <<>>, l, NoResult)
          /\ wasShutDown' = IF l # 0 /\ cs.listeners[l].status = "stopped"
                            THEN wasShutDown \cup {l} ELSE wasShutDown
  /\ UNCHANGED <<collDocs, gen, registered, asked, errorsSeen, updates>>

\* any of the three services, with components that may call an unregister()
\* twice
AgainMaxRegs == 3
AgainIdLists == {<<32>>, <<31, 33>>}

AgainDocNext ==
  \/ \E h \in DocHooks : RegisterDocHook(h, AgainMaxRegs)
  \/ \E h \in DocHooks : UnregisterDocHook(h)
  \/ \E h \in DocHooks : UnregisterDocHookAgain(h)
  \/ FireTimer
  \/ \E handle \in 1..Len(subscriptions) : DeliverDocSnapshot(handle)

AgainQsNext ==
  \/ \E h \in QueryHooks : QsRegister(h)
  \/ \E h \in QueryHooks : QsUnregisterHook(h)
  \/ \E h \in QueryHooks : QsUnregisterHookAgain(h)
  \/ QsFireTimer
  \/ \E handle \in 1..Len(subscriptions) : QsDeliverSnapshot(handle)

AgainCsNext ==
  \/ \E h \in CollHooks, ids \in AgainIdLists :
       CsRegisterDocsHook(h, ids, AgainMaxRegs)
  \/ \E h \in CollHooks : CsUnregisterDocsHook(h)
  \/ \E h \in CollHooks : CsUnregisterDocsHookAgain(h)
  \/ CsFireStartTimer
  \/ \E handle \in 1..Len(chunkSubs) : CsDeliverChunkSnapshot(handle)

AgainNext ==
  \/ service = "subscription" /\ AgainDocNext
  \/ service = "query" /\ AgainQsNext
  \/ service = "collection" /\ AgainCsNext

AgainSpec == AnyInit /\ [][AgainNext]_vars

\* ------------------------------------------------------------------
\* Properties
\* ------------------------------------------------------------------
RegisteredDocHooks(path) == {h \in DocHooks : registered[h] /\ PathOf(h) = path}

\* C1: with only doc hooks on a path, the path never has more than one live
\* store subscription, and has exactly one whenever a hook is registered on it.
C1_OneSubscriptionPerPath ==
  \A p \in Paths :
    /\ Cardinality(LiveDocSubs(p)) <= 1
    /\ RegisteredDocHooks(p) # {} => Cardinality(LiveDocSubs(p)) = 1

\* the grace timer of an owner has just handed the subscription to one of two
\* registered hooks
C1_Witness ==
  /\ lastOp.op = "timer"
  /\ lastOp.wasOwner
  /\ Cardinality(RegisteredDocHooks("p1")) >= 2
  /\ Cardinality(LiveDocSubs("p1")) = 1

\* C2: once the owner of a path unregistered, a hook registering during the
\* grace period makes no store call, nothing is unsubscribed before the timer
\* fires, the last grace timer to fire hands the path to a registered hook
\* without a store call when there is one, and makes exactly one unsubscribe
\* call when no hook is registered.
C2_GraceTimer ==
  LET p == PathOf(lastOp.inst[1])
      GracePending == \E i \in 1..Len(timers) :
                         timers[i].inst[1] = ownerByDocPath[PathOf(timers[i].inst[1])]
  IN /\ lastOp.op = "registerDocHook" /\ GracePending => storeCalls = <<>>
     /\ lastOp.op = "unregisterDoc" => storeCalls = <<>>
     /\ lastOp.op = "timer" /\ lastOp.wasOwner /\ timers = <<>> =>
          IF RegisteredDocHooks(p) # {}
          THEN storeCalls = <<>> /\ ownerByDocPath[p] \in RegisteredDocHooks(p)
          ELSE /\ Len(storeCalls) = 1
               /\ storeCalls[1][1] = "unsubscribe"
               /\ LiveDocSubs(p) = {}

\* C3: a query key of the QueryService never has more than one live store
\* subscription, and has exactly one whenever a hook is registered for it.
C3_OneSubscriptionPerQuery ==
  /\ Cardinality(LiveQuerySubs) <= 1
  /\ (\E h \in QueryHooks : registered[h]) => Cardinality(LiveQuerySubs) = 1

\* the grace timer of the owning query hook has just handed the subscription to
\* the other hook
C3_Witness ==
  /\ service = "query"
  /\ lastOp.op = "timer"
  /\ lastOp.wasOwner
  /\ \E h \in QueryHooks : registered[h] /\ ownerByQueryKey = h
  /\ Cardinality(LiveQuerySubs) = 1

\* the chunk subscriptions the handler run last opened
Opened ==
  {storeCalls[i][2] : i \in {j \in 1..Len(storeCalls) : storeCalls[j][1] = "subscribe"}}

OpenedIds == UNION {Range(chunkSubs[handle].ids) : handle \in Opened}

\* C4: a registration that finds no started listener opens no subscription;
\* when the start timer of a waiting listener fires, the chunk subscriptions it
\* opens cover exactly the ids the hooks asked for, with exactly one
\* subscription when these are at most 30 distinct ids.
C4_BatchedStart ==
  /\ lastOp.op = "registerDocsHook" /\ lastOp.status \in {"none", "waiting"} =>
       storeCalls = <<>>
  /\ lastOp.op = "startTimer" /\ lastOp.status = "waiting" =>
       /\ OpenedIds = asked[lastOp.listener]
       /\ Cardinality(asked[lastOp.listener]) <= ChunkSize =>
            Cardinality(Opened) = 1

\* C4, amended: as C4, with exactly one subscription when the hooks asked for
\* between 1 and 30 distinct ids, none when they asked for no id, and several
\* of at most 30 ids each when they asked for more than 30.
C4_BatchedStartAmended ==
  /\ lastOp.op = "registerDocsHook" /\ lastOp.status \in {"none", "waiting"} =>
       storeCalls = <<>>
  /\ lastOp.op = "startTimer" /\ lastOp.status = "waiting" =>
       LET n == Cardinality(asked[lastOp.listener]) IN
       /\ OpenedIds = asked[lastOp.listener]
       /\ n = 0 => Opened = {}
       /\ n >= 1 /\ n <= ChunkSize => Cardinality(Opened) = 1
       /\ n > ChunkSize => Cardinality(Opened) >= 2
       /\ \A handle \in Opened : Len(chunkSubs[handle].ids) <= ChunkSize

\* the start timer fires after two hooks registered different ids: one
\* subscription for both
C4_Witness ==
  /\ lastOp.op = "startTimer"
  /\ lastOp.status = "waiting"
  /\ \A h \in CollHooks : registered[h]
  /\ Cardinality(asked[lastOp.listener]) = 2
  /\ Cardinality(Opened) = 1

\* C5: the start timer of a listener that was shut down opens no subscription
\* and leaves the listener stopped.
C5_StoppedStaysStopped ==
  lastOp.op = "startTimer" /\ lastOp.status = "stopped" =>
    /\ storeCalls = <<>>
    /\ listeners[lastOp.listener].status = "stopped"

Flatten(seqs) ==
  LET RECURSIVE Cat(_)
      Cat(i) == IF i > Len(seqs) THEN <<>> ELSE seqs[i] \o Cat(i + 1)
  IN Cat(1)

\* C6: after ids were added to a started listener, its chunks hold every id of
\* its id set exactly once, and no chunk holds more than 30 ids.
C6_ChunksPartition ==
  lastOp.op \in {"registerDocsHook", "updateDocIds"} /\ lastOp.status = "started" =>
    LET listener == listeners[lastOp.listener]
        all == Flatten(listener.chunks)
    IN /\ Range(all) = Range(listener.ids)
       /\ \A i, j \in 1..Len(all) : all[i] = all[j] => i = j
       /\ \A c \in 1..Len(listener.chunks) : Len(listener.chunks[c]) <= ChunkSize

\* C7: once a snapshot leaves the listener fully loaded, every registered hook
\* that wants an id no document has was told so through onError.
C7_MissingIdReported ==
  LET l == snapshotListenersByCollectionPath IN
  /\ lastOp.op = "chunkSnapshot"
  /\ l # 0
  /\ lastOp.listener = l
  /\ listeners[l].isLoaded
  /\ \A handle \in 1..Len(chunkSubs) :
       chunkSubs[handle].live /\ chunkSubs[handle].listener = l =>
         chunkSubs[handle].first
  => \A h \in CollHooks : registered[h] =>
       Range(docIdsByHookId[h].ids) \cap NeverIds \subseteq errorsSeen[h]

\* C8: onError names no id whose chunk subscription has not delivered its first
\* snapshot.
C8_NoErrorBeforeFirstSnapshot ==
  \A i \in 1..Len(calls) : calls[i].kind = "onError" =>
    \A id \in Range(calls[i].ids) :
      \E handle \in 1..Len(chunkSubs) :
        /\ chunkSubs[handle].live
        /\ chunkSubs[handle].listener = snapshotListenersByCollectionPath
        /\ id \in Range(chunkSubs[handle].ids)
        /\ chunkSubs[handle].first

\* the hook registered as h got callback kind with doc (onDoc) in the handler
\* run last
GotDoc(h, doc) ==
  \E i \in 1..Len(calls) :
    calls[i].kind = "onDoc" /\ calls[i].inst = <<h, gen[h]>> /\ calls[i].doc = doc

GotDocs(h, docs) ==
  \E i \in 1..Len(calls) :
    calls[i].kind = "onDocs" /\ calls[i].inst = <<h, gen[h]>> /\ calls[i].docs = docs

\* C9: when a query snapshot carries a new version of a document whose path the
\* query subscription owns, every doc hook registered on the path gets onDoc
\* with that version.
C9_QueryFeedsDocHooks ==
  lastOp.op = "querySnapshot" /\ service = "subscription" =>
    LET docs == subscriptions[lastOp.handle].seen.docs IN
    \A i \in 1..Len(docs), h \in DocHooks :
      /\ registered[h]
      /\ PathOf(h) = docs[i].path
      /\ lastOp.ownersBefore[docs[i].path] \in QueryHooks
      /\ lastOp.docsBefore[docs[i].path].data # docs[i].data
      => \E c \in 1..Len(calls) :
           /\ calls[c].kind = "onDoc"
           /\ calls[c].inst = <<h, gen[h]>>
           /\ calls[c].doc.data = docs[i].data

\* C10: every snapshot delivered on the subscription of a key is passed to every
\* hook registered on the key and becomes the cached result, and a hook that
\* registers while the subscription lives is handed the snapshot delivered last.
C10_SnapshotsReachHooks ==
  LET seen == subscriptions[lastOp.handle].seen
      p == PathOf(lastOp.inst[1])
  IN /\ lastOp.op = "docSnapshot" =>
          /\ \A h \in RegisteredDocHooks(p) :
               \E i \in 1..Len(calls) :
                 /\ calls[i].kind = "onDoc"
                 /\ calls[i].inst = <<h, gen[h]>>
                 /\ <<calls[i].doc>> = seen.docs
          /\ <<lastDocByPath[p]>> = seen.docs
     /\ lastOp.op = "querySnapshot" =>
          /\ \A h \in QueryHooks : registered[h] => GotDocs(h, seen.docs)
          /\ lastQueryResultByKey = seen
     /\ lastOp.op = "registerDocHook" =>
          \A handle \in LiveDocSubs(p) :
            subscriptions[handle].seen.set =>
              <<lastOp.cachedDoc>> = subscriptions[handle].seen.docs
     /\ lastOp.op = "registerQueryHook" =>
          \A handle \in LiveQuerySubs :
            subscriptions[handle].seen.set =>
              lastOp.cachedResults = subscriptions[handle].seen

\* C10, amended: as C10 for the snapshots of a document that exists and for
\* query snapshots; a snapshot that reports its document as not existing
\* raises an error, is passed to no hook and leaves the cached document as it
\* was, and a hook that registers later is handed the cached document.
C10_SnapshotsReachHooksAmended ==
  LET seen == subscriptions[lastOp.handle].seen
      p == PathOf(lastOp.inst[1])
  IN /\ lastOp.op = "docSnapshot" /\ seen.docs # <<>> =>
          /\ \A h \in RegisteredDocHooks(p) : GotDoc(h, seen.docs[1])
          /\ lastDocByPath[p] = seen.docs[1]
     /\ lastOp.op = "docSnapshot" /\ seen.docs = <<>> =>
          /\ err # "none"
          /\ calls = <<>>
          /\ lastDocByPath = lastOp.docsBefore
     /\ lastOp.op = "querySnapshot" =>
          /\ \A h \in QueryHooks : registered[h] => GotDocs(h, seen.docs)
          /\ lastQueryResultByKey = seen
     /\ lastOp.op = "registerDocHook" =>
          \A handle \in LiveDocSubs(p) :
            /\ subscriptions[handle].seen.set => lastOp.cachedDoc = lastDocByPath[p]
            /\ subscriptions[handle].seen.docs # <<>> =>
                 <<lastOp.cachedDoc>> = subscriptions[handle].seen.docs
     /\ lastOp.op = "registerQueryHook" =>
          \A handle \in LiveQuerySubs :
            subscriptions[handle].seen.set =>
              lastOp.cachedResults = subscriptions[handle].seen

\* a snapshot is delivered to a registered hook while the path is owned by
\* another hook than the one that opened the subscription
C10_Witness ==
  /\ lastOp.op = "docSnapshot"
  /\ ownerByDocPath[PathOf(lastOp.inst[1])] # lastOp.inst[1]
  /\ RegisteredDocHooks(PathOf(lastOp.inst[1])) # {}
  /\ calls # <<>>

\* the registration instance is the hook's current, not yet unregistered one
IsRegistered(inst) == registered[inst[1]] /\ gen[inst[1]] = inst[2]

\* C11: no handler ever invokes a callback (onDoc, onDocs, onError) of a
\* registration whose unregister() has returned.
C11_NoCallbackAfterUnregister ==
  \A i \in 1..Len(calls) : IsRegistered(calls[i].inst)

\* the subscription opened by a hook that unregistered before any snapshot
\* arrived delivers its first snapshot, which is passed to the other hooks
C11_Witness ==
  /\ lastOp.op = "docSnapshot"
  /\ ~IsRegistered(lastOp.inst)
  /\ lastOp.docsBefore[PathOf(lastOp.inst[1])] = NoDoc
  /\ calls # <<>>

InLatestResult(result, path) ==
  {result.docs[i] : i \in {j \in 1..Len(result.docs) : result.docs[j].path = path}}

\* C13: registering a doc hook on a path owned by the live query subscription,
\* with the document in the query's latest result, makes no store call and
\* returns the document of that result as cachedDoc.
C13_DocHookReusesQuery ==
  LET p == PathOf(lastOp.inst[1]) IN
  /\ lastOp.op = "registerDocHook"
  /\ lastOp.ownersBefore[p] \in QueryHooks
  /\ LiveQuerySubs # {}
  /\ InLatestResult(lastQueryResultByKey, p) # {}
  => /\ storeCalls = <<>>
     /\ lastOp.cachedDoc \in InLatestResult(lastQueryResultByKey, p)
     /\ err = "none"

\* a doc hook registers on the path of a document that the mounted query hook's
\* subscription delivered
C13_Witness ==
  LET p == PathOf(lastOp.inst[1]) IN
  /\ lastOp.op = "registerDocHook"
  /\ lastOp.ownersBefore[p] \in QueryHooks
  /\ registered[lastOp.ownersBefore[p]]
  /\ LiveQuerySubs # {}
  /\ lastOp.cachedDoc \in InLatestResult(lastQueryResultByKey, p)
  /\ storeCalls = <<>>

\* the store calls of the given kind that the handler run last made
StoreCallsOf(kind) == {i \in 1..Len(storeCalls) : storeCalls[i][1] = kind}

\* C14: unregistering a query hook makes no store call; when the grace timer
\* of the query's owner fires with no other query hook waiting, the query
\* subscription is unsubscribed exactly once and, for each path the query hook
\* owned with a doc hook waiting, exactly one document subscription is opened,
\* owned by the doc hook that waited longest.
C14_QueryHandsPathsToDocHooks ==
  /\ lastOp.op = "unregisterQuery" => storeCalls = <<>>
  /\ /\ lastOp.op = "timer"
     /\ lastOp.inst[1] \in QueryHooks
     /\ lastOp.wasOwner
     /\ ownerByQueryKey = NoOwner
     => /\ Cardinality(StoreCallsOf("unsubscribe")) = 1
        /\ LiveQuerySubs = {}
        /\ \A p \in Paths :
             /\ lastOp.ownersBefore[p] = lastOp.inst[1]
             /\ lastOp.waitingBefore[p] # <<>>
             => LET first == Head(lastOp.waitingBefore[p])
                    opened == {i \in StoreCallsOf("subscribe") :
                                 /\ subscriptions[storeCalls[i][2]].kind = "doc"
                                 /\ PathOf(subscriptions[storeCalls[i][2]].inst[1]) = p}
                IN /\ Cardinality(opened) = 1
                   /\ \A i \in opened : subscriptions[storeCalls[i][2]].inst = first
                   /\ ownerByDocPath[p] = first[1]
                   /\ Cardinality(LiveDocSubs(p)) = 1

\* the ids of newIds, each once, that the listener did not hold
TrulyNew(held, newIds) ==
  SubSeq(AddAll(held, newIds), Len(held) + 1, Len(AddAll(held, newIds)))

Ceil(a, b) == (a + b - 1) \div b

\* C15: addIds on a started listener with n > 0 new ids and a last chunk of L
\* ids appends the first min(n, 30 - L) of them to the last chunk with one
\* unsubscribe and one subscribe, opens ceil(rest / 30) subscriptions for the
\* rest, and leaves the earlier chunks and their subscriptions as they were;
\* with no new id it makes no store call.
C15_AddIdsGrowsLastChunk ==
  /\ lastOp.op \in {"registerDocsHook", "updateDocIds"}
  /\ lastOp.status = "started"
  => LET before == lastOp.before
         after == listeners[lastOp.listener]
         new == TrulyNew(before.ids, lastOp.ids)
         n == Len(new)
         last == Len(before.chunks)
         room == IF last = 0 THEN 0 ELSE ChunkSize - Len(before.chunks[last])
         k == IF n < room THEN n ELSE room
         grown == IF k > 0 THEN 1 ELSE 0
         kept == IF k > 0 THEN last - 1 ELSE last
     IN IF n = 0
        THEN storeCalls = <<>> /\ after.chunks = before.chunks
        ELSE /\ k > 0 =>
                  /\ after.chunks[last] = before.chunks[last] \o SubSeq(new, 1, k)
                  /\ \E i \in StoreCallsOf("unsubscribe") :
                       storeCalls[i][2] = before.unsubscribes[last]
                  /\ chunkSubs[after.unsubscribes[last]].live
                  /\ chunkSubs[after.unsubscribes[last]].ids = after.chunks[last]
             /\ Cardinality(StoreCallsOf("unsubscribe")) = grown
             /\ Cardinality(StoreCallsOf("subscribe")) = grown + Ceil(n - k, ChunkSize)
             /\ Len(after.chunks) = last + Ceil(n - k, ChunkSize)
             /\ \A i \in 1..kept :
                  /\ after.chunks[i] = before.chunks[i]
                  /\ after.unsubscribes[i] = before.unsubscribes[i]
                  /\ chunkSubs[after.unsubscribes[i]].live

\* every chunk of the listener got a snapshot on its current subscription
AllChunksGotSnapshot(l) ==
  \A i \in 1..Len(listeners[l].chunks) :
    chunkSubs[listeners[l].unsubscribes[i]].first

\* C16: the collection's listener is loaded only if every one of its chunks
\* got a snapshot since the chunk was last subscribed, and it is loaded once a
\* snapshot leaves no chunk without one.
C16_LoadedIffAllChunksLoaded ==
  LET l == snapshotListenersByCollectionPath IN
  l # 0 =>
    /\ listeners[l].isLoaded => AllChunksGotSnapshot(l)
    /\ lastOp.op = "chunkSnapshot" /\ lastOp.listener = l /\ AllChunksGotSnapshot(l)
         => listeners[l].isLoaded

\* the chunk subscriptions of listener l that were opened and not unsubscribed
LiveChunkSubs(l) ==
  {handle \in 1..Len(chunkSubs) :
     chunkSubs[handle].listener = l /\ chunkSubs[handle].live}

\* C17: start() on a listener holding M ids opens ceil(M / 30) subscriptions,
\* all of 30 ids but the last, which has the rest; the live subscriptions of a
\* started listener are one per chunk, each on the ids of its chunk, and a
\* waiting listener has no subscription.
C17_OneSubscriptionPerChunk ==
  /\ lastOp.op = "startTimer" =>
       LET ids == listeners[lastOp.listener].ids
           M == Len(ids)
           count == Ceil(M, ChunkSize)
       IN /\ Len(storeCalls) = count
          /\ \A i \in 1..count :
               /\ storeCalls[i][1] = "subscribe"
               /\ chunkSubs[storeCalls[i][2]].ids =
                    SubSeq(ids, ChunkSize * (i - 1) + 1,
                           IF i < count THEN ChunkSize * i ELSE M)
  /\ \A l \in 1..Len(listeners) :
       /\ listeners[l].status = "started" =>
            /\ LiveChunkSubs(l) = Range(listeners[l].unsubscribes)
            /\ \A i, j \in 1..Len(listeners[l].chunks) :
                 /\ chunkSubs[listeners[l].unsubscribes[i]].ids = listeners[l].chunks[i]
                 /\ listeners[l].unsubscribes[i] = listeners[l].unsubscribes[j] => i = j
            /\ Len(listeners[l].unsubscribes) = Len(listeners[l].chunks)
       /\ listeners[l].status = "waiting" =>
            {handle \in 1..Len(chunkSubs) : chunkSubs[handle].listener = l} = {}

\* the start timer fires on a listener that holds more ids than one chunk: a
\* subscription of 30 ids and one with the rest
C17_Witness ==
  /\ lastOp.op = "startTimer"
  /\ lastOp.status = "waiting"
  /\ Len(listeners[lastOp.listener].ids) > ChunkSize
  /\ Len(storeCalls) = 2
  /\ Len(chunkSubs[storeCalls[1][2]].ids) = ChunkSize
  /\ Len(chunkSubs[storeCalls[2][2]].ids) = Len(listeners[lastOp.listener].ids) - ChunkSize

\* C18: addIds on a waiting listener records the ids, returns those it did not
\* hold, makes no store call, creates no chunk and leaves the listener waiting.
C18_WaitingAddIdsOnlyRecords ==
  /\ lastOp.op \in {"registerDocsHook", "updateDocIds"}
  /\ lastOp.status = "waiting"
  => LET before == lastOp.before
         after == listeners[lastOp.listener]
     IN /\ Range(after.ids) = Range(before.ids) \cup Range(lastOp.ids)
        /\ \A i, j \in 1..Len(after.ids) : after.ids[i] = after.ids[j] => i = j
        /\ Range(lastOp.returned) = Range(lastOp.ids) \ Range(before.ids)
        /\ storeCalls = <<>>
        /\ after.chunks = <<>> /\ after.unsubscribes = <<>>
        /\ after.status = "waiting"
        /\ LiveChunkSubs(lastOp.listener) = {}

\* a second hook registers ids, one of them new, while the listener waits
C18_Witness ==
  /\ lastOp.op = "registerDocsHook"
  /\ lastOp.status = "waiting"
  /\ lastOp.returned # <<>>
  /\ lastOp.before.ids # <<>>
  /\ Len(listeners[lastOp.listener].ids) > Len(lastOp.before.ids)
  /\ storeCalls = <<>>

\* C19: shutDown() unsubscribes the subscription of every chunk and leaves the
\* listener stopped; every addIds call made after shutDown() raises the 'was
\* shut down' error and changes neither ids, chunks nor subscriptions.
C19_ShutDownIsFinal ==
  LET l == lastOp.listener IN
  /\ lastOp.op = "shutDown" =>
       /\ listeners[l].status = "stopped"
       /\ LiveChunkSubs(l) = {}
       /\ storeCalls = [i \in 1..Len(lastOp.before.unsubscribes) |->
                          <<"unsubscribe", lastOp.before.unsubscribes[i]>>]
  /\ lastOp.op = "addIds" /\ l \in wasShutDown =>
       /\ err = "listener was shut down"
       /\ listeners[l] = lastOp.before
       /\ storeCalls = <<>>

\* C20: unregister() of a hook that is not the last one of the collection
\* removes that hook only and leaves the listener and its subscriptions as
\* they were; unregister() of the last hook removes the listener from the
\* registry and shuts it down within the call, so that no chunk subscription
\* of the collection is live when it returns.
C20_UnregisterShutsDownAtOnce ==
  lastOp.op = "unregisterDocs" =>
    LET l == lastOp.listener
        h == lastOp.inst[1]
        subs == subscriptionsByCollectionPath
    IN /\ err = "none"
       /\ \A i \in 1..Len(subs) : subs[i].hookId # h
       /\ \A g \in CollHooks : registered[g] => \E i \in 1..Len(subs) : subs[i].hookId = g
       /\ IF subs # <<>>
          THEN /\ snapshotListenersByCollectionPath = l
               /\ listeners[l] = lastOp.before
               /\ storeCalls = <<>>
          ELSE /\ snapshotListenersByCollectionPath = 0
               /\ listeners[l].status = "stopped"
               /\ \A handle \in 1..Len(chunkSubs) : ~chunkSubs[handle].live

\* the ids the hooks registered on the collection want at present
WantedIds ==
  UNION {Range(docIdsByHookId[h].ids) : h \in {g \in CollHooks : registered[g]}}

\* the ids the live chunk subscriptions of listener l ask the store for
SubscribedIds(l) == UNION {Range(chunkSubs[handle].ids) : handle \in LiveChunkSubs(l)}

\* C21: while the collection's listener is started, its chunk subscriptions
\* cover exactly the ids that the registered hooks want at present.
C21_SubscribedIdsAreWantedIds ==
  LET l == snapshotListenersByCollectionPath IN
  l # 0 /\ listeners[l].status = "started" => SubscribedIds(l) = WantedIds

\* the registration run last added its hook at the end of the collection's
\* registration list and kept the collection's listener
JoinedListener ==
  LET subs == subscriptionsByCollectionPath IN
  /\ subs # <<>>
  /\ subs[Len(subs)].inst = lastOp.inst
  /\ snapshotListenersByCollectionPath = lastOp.listener
  /\ docIdsByHookId[lastOp.inst[1]] = [set |-> TRUE, ids |-> lastOp.ids]

\* C22: a registration on a collection whose listener has started joins the
\* listener's registration list and makes no store call.
C22_JoinMakesNoStoreCall ==
  lastOp.op = "registerDocsHook" /\ lastOp.status = "started" =>
    JoinedListener /\ storeCalls = <<>>

\* C22, amended: such a registration joins the listener's registration list;
\* it makes no store call and leaves the listener as it was when the listener
\* holds every id it asks for, and otherwise subscribes the new ids, closing
\* no subscription but the one of the last chunk.
C22_JoinMakesNoStoreCallAmended ==
  lastOp.op = "registerDocsHook" /\ lastOp.status = "started" =>
    LET before == lastOp.before
        last == Len(before.chunks)
    IN /\ JoinedListener
       /\ Range(lastOp.ids) \subseteq Range(before.ids) =>
            storeCalls = <<>> /\ listeners[lastOp.listener] = before
       /\ ~(Range(lastOp.ids) \subseteq Range(before.ids)) =>
            /\ StoreCallsOf("subscribe") # {}
            /\ \A i \in StoreCallsOf("unsubscribe") :
                 last > 0 /\ storeCalls[i][2] = before.unsubscribes[last]
            /\ Range(lastOp.ids) \subseteq SubscribedIds(lastOp.listener)

\* a second hook registers, on a started listener, ids the listener holds
C22_Witness ==
  /\ lastOp.op = "registerDocsHook"
  /\ lastOp.status = "started"
  /\ lastOp.ids # <<>>
  /\ Range(lastOp.ids) \subseteq Range(lastOp.before.ids)
  /\ Len(subscriptionsByCollectionPath) = 2
  /\ storeCalls = <<>>

\* C23: updateDocIds with ids that are all in the collection's cache invokes
\* the hook's onDocs within the call, with the cached documents in the order
\* of the new ids, and makes no store call.
C23_CachedUpdateIsLocal ==
  LET ids == lastOp.ids IN
  /\ lastOp.op = "updateDocIds"
  /\ \A i \in 1..Len(ids) : docsCacheByCollectionPath[ids[i]] # -1
  => /\ calls = <<[kind |-> "onDocs", inst |-> lastOp.inst, doc |-> NoDoc,
                   docs |-> [i \in 1..Len(ids) |->
                               [id |-> ids[i],
                                data |-> docsCacheByCollectionPath[ids[i]],
                                path |-> "none"]],
                   ids |-> <<>>]>>
     /\ storeCalls = <<>>
     /\ err = "none"

\* C24: registerDocsHook returns as cachedDocs the cached documents in the
\* order of the requested ids when every requested id is cached, and
\* undefined otherwise.
C24_CachedDocsIffAllCached ==
  lastOp.op = "registerDocsHook" =>
    LET ids == lastOp.ids IN
    IF \A i \in 1..Len(ids) : docsCacheByCollectionPath[ids[i]] # -1
    THEN /\ lastOp.cachedResults.set
         /\ lastOp.cachedResults.docs =
              [i \in 1..Len(ids) |->
                 [id |-> ids[i], data |-> docsCacheByCollectionPath[ids[i]],
                  path |-> "none"]]
    ELSE lastOp.cachedResults = NoResult

\* a hook registers ids that a snapshot has cached and gets them at once
C24_Witness ==
  /\ lastOp.op = "registerDocsHook"
  /\ lastOp.ids # <<>>
  /\ lastOp.cachedResults.set
  /\ Len(lastOp.cachedResults.docs) = Len(lastOp.ids)

\* C25: no handler invokes a hook's onError for an id that an earlier onError
\* already named to the hook since it registered or last changed its ids.
C25_ErrorReportedOnce ==
  [][\A i \in 1..Len(calls') :
       calls'[i].kind = "onError" =>
         Range(calls'[i].ids) \cap errorsSeen[calls'[i].inst[1]] = {}]_vars

\* the ids hook h wants that are not in the collection's cache
UncachedIdsOf(h) ==
  {id \in Range(docIdsByHookId[h].ids) : docsCacheByCollectionPath[id] = -1}

\* C26: when a snapshot was handled with the listener fully loaded, every
\* registered hook that wants an id absent from the cache has been told so
\* through onError, and the snapshot raised no onError for a hook whose ids
\* are all cached.
C26_ErrorsReachWaitingHooks ==
  LET l == snapshotListenersByCollectionPath IN
  /\ lastOp.op = "chunkSnapshot"
  /\ l # 0
  /\ lastOp.listener = l
  /\ listeners[l].isLoaded
  => \A h \in CollHooks : registered[h] =>
       /\ UncachedIdsOf(h) \subseteq errorsSeen[h]
       /\ UncachedIdsOf(h) = {} =>
            \A i \in 1..Len(calls) :
              ~(calls[i].kind = "onError" /\ calls[i].inst[1] = h)

\* the ids of the added and modified change records of the handled snapshot
ChangedIds == Range(lastOp.dirtyIds)

\* the onDocs calls hook h received in this step
OnDocsCallsOf(h) ==
  {i \in 1..Len(calls) : calls[i].kind = "onDocs" /\ calls[i].inst[1] = h}

\* C27: on every snapshot, every registered hook whose ids are all cached
\* and include a changed id receives onDocs with its documents in wanted-id
\* order, wherever it stands in the registration list and whatever error
\* another hook was given.
C27_ChangedHooksGetDocs ==
  lastOp.op = "chunkSnapshot" /\ snapshotListenersByCollectionPath # 0
  => \A h \in CollHooks :
       /\ registered[h]
       /\ UncachedIdsOf(h) = {}
       /\ Range(docIdsByHookId[h].ids) \cap ChangedIds # {}
       => \E i \in OnDocsCallsOf(h) :
            calls[i].docs = DocsOf(CsCur, docIdsByHookId[h].ids)

\* the registries, timers and store subscriptions of the three services
RegistryState ==
  <<ownerByDocPath, unsubscribeFunctionsByDocPath, docListenersByPath,
    assignDocOwnerFunctionsByPath, ownerByQueryKey,
    unsubscribeFunctionsByQueryKey, queryListenersByKey,
    assignQueryOwnerFunctionsByKey, timers, subscriptions,
    snapshotListenersByCollectionPath, subscriptionsByCollectionPath,
    docIdsByHookId, listeners, startTimers, chunkSubs>>

\* C28: a second call of the unregister() of a registration raises an error
\* and changes no registry state: no registration is removed, no timer is
\* scheduled and no store call is made.
C28_SecondUnregisterRaises ==
  [][lastOp'.op = "unregisterAgain"
     => /\ err' # "none"
        /\ storeCalls' = <<>>
        /\ UNCHANGED RegistryState]_vars

\* C29: registerDocsHook called without an id array raises an error and
\* leaves the registry as it was: no entry is added to the registration list,
\* no listener is created and no timer is scheduled.
C29_WithoutIdsChangesNothing ==
  [][lastOp'.op = "registerDocsHookWithoutIds"
     => /\ err' # "none"
        /\ UNCHANGED <<subscriptionsByCollectionPath,
                       snapshotListenersByCollectionPath, docIdsByHookId,
                       listeners, startTimers>>]_vars

\* the last record of the handled snapshot that names id, 0 when none does
LastRecordOf(id) ==
  LET named == {i \in 1..Len(lastOp.changes) : lastOp.changes[i].id = id}
  IN IF named = {} THEN 0 ELSE CHOOSE i \in named : \A j \in named : j <= i

\* C30: an added or modified change record replaces the whole cached
\* document of its id and a removed record deletes it; the cache entry of an
\* id is the one of the last record delivered for that id; applying the same
\* modified record twice leaves the cache as applying it once does.
C30_CacheFollowsLastRecord ==
  /\ lastOp.op = "handleSnapshot" =>
       \A id \in AllIds :
         LET last == LastRecordOf(id) IN
         docsCacheByCollectionPath[id] =
           IF last = 0 THEN lastOp.cacheBefore[id]
           ELSE IF lastOp.changes[last].type = "removed" THEN -1
           ELSE lastOp.changes[last].data
  /\ \A r \in ChangeRecords :
       r.type = "modified" =>
         ApplyChangeRecords(CsCur, <<r, r>>).docsCacheByCollectionPath
           = ApplyChangeRecords(CsCur, <<r>>).docsCacheByCollectionPath

\* a snapshot modified a cached document twice, with two other documents
C30_Witness ==
  /\ lastOp.op = "handleSnapshot"
  /\ Len(lastOp.changes) = 2
  /\ lastOp.changes[1].type = "modified"
  /\ lastOp.changes[2].type = "modified"
  /\ lastOp.changes[1].id = lastOp.changes[2].id
  /\ lastOp.changes[1].data # lastOp.changes[2].data
  /\ lastOp.cacheBefore[lastOp.changes[1].id] \notin
       {-1, lastOp.changes[1].data, lastOp.changes[2].data}

\* the filters of b are the filters of a in some order
SameFilterSet(a, b) ==
  /\ Len(a) = Len(b)
  /\ \E perm \in [1..Len(a) -> 1..Len(a)] :
       /\ \A i, j \in 1..Len(a) : perm[i] = perm[j] => i = j
       /\ \A i \in 1..Len(a) : b[i] = a[perm[i]]

\* C31: two queries with the same path, sort orders and limit and the same
\* filter clauses in a different order serialize to the same key.
C31_FilterOrderIsIgnored ==
  lastOp.op = "serializeQuery" =>
    LET q1 == lastOp.queries[1]
        q2 == lastOp.queries[2]
    IN /\ q1.path = q2.path
       /\ q1.explicitOrderBy = q2.explicitOrderBy
       /\ q1.limit = q2.limit
       /\ q1.limitType = q2.limitType
       /\ SameFilterSet(q1.filters, q2.filters)
       => lastOp.keys[1] = lastOp.keys[2]

\* two queries with two different filters each, in opposite orders, were
\* serialized
C31_Witness ==
  /\ lastOp.op = "serializeQuery"
  /\ Len(lastOp.queries[1].filters) = 2
  /\ lastOp.queries[1].filters[1] # lastOp.queries[1].filters[2]
  /\ lastOp.queries[2] =
       [lastOp.queries[1] EXCEPT
          !.filters = <<lastOp.queries[1].filters[2], lastOp.queries[1].filters[1]>>]
  /\ lastOp.keys[1] = lastOp.keys[2]

\* C32: two queries that differ in path, sort order, limit, or in the field,
\* operator or value of a filter serialize to different keys.
C32_DifferentQueriesDifferentKeys ==
  lastOp.op = "serializeQuery" =>
    LET q1 == lastOp.queries[1]
        q2 == lastOp.queries[2]
    IN \/ q1.path # q2.path
       \/ q1.explicitOrderBy # q2.explicitOrderBy
       \/ q1.limit # q2.limit
       \/ ~SameFilterSet(q1.filters, q2.filters)
       => lastOp.keys[1] # lastOp.keys[2]

\* every operation deleteDocs queued, in the order of the batches
QueuedOperations == Flatten(batches) \o currentBatch

\* the highlights and the documents the associations of the call reach
ReachedHighlights ==
  IF delCall.associations = <<>> THEN {}
  ELSE {h \in HighlightIds :
          /\ delCall.before.highlights[h].exists
          /\ delCall.before.highlights[h].tagId \in Range(delCall.idsToDelete)}

ReachedDocuments ==
  {d \in DocumentIds :
     /\ delCall.before.documents[d].exists
     /\ Range(delCall.before.documents[d].highlightIds) \cap ReachedHighlights # {}}

\* C33: every operation of deleteDocs is in exactly one batch, no batch holds
\* more than 500 operations, no empty batch is committed, and the batches are
\* committed in creation order, each commit starting after the one before it
\* resolved.
C33_BatchesOfAtMost500 ==
  delPc # "idle" =>
    LET ids == delCall.idsToDelete
        all == QueuedOperations
        first == Len(all) - Len(ids)
    IN /\ Len(all) = Len(ids) + Cardinality(ReachedHighlights)
                               + Cardinality(ReachedDocuments)
       /\ \A i \in 1..Len(ids) : all[first + i] = DeleteOp("tags", ids[i])
       /\ \A k \in 1..Len(batches) : Len(batches[k]) <= BatchLimit
       /\ Len(currentBatch) <= BatchLimit
       /\ \A j \in 1..Len(commits) :
            commits[j].kind = "start" =>
              /\ BatchAt(commits[j].batch) # <<>>
              /\ commits[j].batch <= Len(batches) + 1
              /\ IF j = 1 THEN commits[j].batch = 1
                 ELSE commits[j - 1] =
                        [kind |-> "resolve", batch |-> commits[j].batch - 1]
       /\ delPc = "resolved" =>
            \A k \in 1..(Len(batches) + 1) :
              BatchAt(k) # <<>> =>
                \E j \in 1..Len(commits) :
                  commits[j] = [kind |-> "resolve", batch |-> k]

\* deleteDocs queued 1001 deletes and committed three batches
C33_Witness ==
  /\ delPc = "resolved"
  /\ Len(delCall.idsToDelete) = 1001
  /\ Len(batches) = 2
  /\ Len(currentBatch) = 1
  /\ Len(commits) = 6

\* the store of the call after the first k batches were applied to it
StoreAfter(k) ==
  LET RECURSIVE After(_)
      After(i) == IF i = 0 THEN delCall.before ELSE Commit(After(i - 1), BatchAt(i))
  IN After(k)

\* C34: when the commit of a batch fails, deleteDocs rejects, commits no
\* later batch and writes nothing to make up for the batches committed before.
C34_FailedCommitStopsDeleteDocs ==
  /\ \A j \in 1..Len(commits) :
       commits[j].kind = "reject" => delPc = "rejected" /\ j = Len(commits)
  /\ delPc = "rejected" =>
       /\ commits # <<>>
       /\ commits[Len(commits)].kind = "reject"
       /\ firestore = StoreAfter(commits[Len(commits)].batch - 1)
       /\ ~ENABLED (CommitResolved \/ CommitRejected)

\* the second of three commits failed
C34_Witness ==
  /\ delPc = "rejected"
  /\ Len(batches) = 2
  /\ currentBatch # <<>>
  /\ commits[Len(commits)] = [kind |-> "reject", batch |-> 2]
  /\ firestore # delCall.before

\* C35: after the two-level deleteDocs completed, the listed tags and the
\* highlights of a listed tag are gone, no document lists a deleted highlight,
\* and every other tag, highlight and listed id is as it was.
C35_CascadeDeletesAndScrubs ==
  delPc = "resolved" /\ delCall.associations = Cascade =>
    LET before == delCall.before
        Kept(id) == id \notin ReachedHighlights
    IN /\ \A t \in TagIds :
            IF t \in Range(delCall.idsToDelete)
            THEN ~firestore.tags[t].exists
            ELSE firestore.tags[t] = before.tags[t]
       /\ \A h \in HighlightIds :
            IF h \in ReachedHighlights
            THEN ~firestore.highlights[h].exists
            ELSE firestore.highlights[h] = before.highlights[h]
       /\ \A d \in DocumentIds :
            firestore.documents[d] =
              [before.documents[d] EXCEPT
                 !.highlightIds = SelectSeq(@, Kept)]

\* tag 1 was deleted with its highlight 11, which a document listed next to
\* highlight 12 of tag 2
C35_Witness ==
  /\ delPc = "resolved"
  /\ delCall.associations = Cascade
  /\ delCall.idsToDelete = <<1>>
  /\ delCall.before.highlights[11].exists
  /\ delCall.before.highlights[11].tagId = 1
  /\ delCall.before.highlights[12].tagId = 2
  /\ delCall.before.documents[21].highlightIds = <<11, 12>>
  /\ firestore.documents[21].highlightIds = <<12>>
  /\ ~firestore.highlights[11].exists
  /\ firestore.highlights[12].exists

\* the paths that were in the snapshot a query subscription delivered before
\* the one it delivered last, and are not in the last one
LeftTheQuery ==
  {p \in Paths :
     /\ lastOp.seenBefore.set
     /\ p \in DocPaths(lastOp.seenBefore.docs)
     /\ p \notin DocPaths(subscriptions[lastOp.handle].seen.docs)}

\* the document subscriptions for path p that the handler run last opened
OpenedDocSubs(p) ==
  {i \in StoreCallsOf("subscribe") :
     /\ subscriptions[storeCalls[i][2]].kind = "doc"
     /\ PathOf(subscriptions[storeCalls[i][2]].inst[1]) = p}

\* C36: when a query snapshot no longer holds a document that the previous
\* snapshot of the same query held, the query's hook owned the document's path
\* and a doc hook was waiting on the path, then after the snapshot handler the
\* path is owned by the doc hook that waited longest and that hook opened a
\* document subscription for the path.
C36_RemovedPathGoesToWaitingDocHook ==
  lastOp.op = "querySnapshot" =>
    \A p \in LeftTheQuery :
      /\ lastOp.ownersBefore[p] = lastOp.inst[1]
      /\ lastOp.waitingBefore[p] # <<>>
      => LET first == Head(lastOp.waitingBefore[p]) IN
         /\ ownerByDocPath[p] = first[1]
         /\ \E i \in OpenedDocSubs(p) : subscriptions[storeCalls[i][2]].inst = first
\* C37: when the grace timer of the query's owner fires while other query hooks
\* wait on the key, the hook that waited longest becomes the owner, the query
\* subscription stays live, the new owner is no longer in the waiting queue
\* and the timer callback raises no error.
C37_QueryOwnershipPassesOn ==
  /\ lastOp.op = "timer"
  /\ lastOp.inst[1] \in QueryHooks
  /\ lastOp.wasOwner
  /\ lastOp.queueBefore # <<>>
  => LET first == Head(lastOp.queueBefore) IN
     /\ ownerByQueryKey = first[1]
     /\ LiveQuerySubs # {}
     /\ IndexOf(assignQueryOwnerFunctionsByKey, first) = 0
     /\ err = "none"
\* a hook that is registered, or whose grace timer has not fired yet
RegisteredOrTimerPending(h) ==
  \/ registered[h]
  \/ \E i \in 1..Len(timers) : timers[i].inst[1] = h

\* C38: the owner of a document path and the owner of the query key is a hook
\* that is registered or whose grace timer is still pending, and an owned path
\* or key has a live store subscription that delivers it.
C38_OwnersAreAliveAndSubscribed ==
  /\ \A p \in Paths :
       ownerByDocPath[p] # NoOwner =>
         /\ RegisteredOrTimerPending(ownerByDocPath[p])
         /\ LiveDocSubs(p) # {} \/ LiveQuerySubs # {}
  /\ ownerByQueryKey # NoOwner =>
       /\ RegisteredOrTimerPending(ownerByQueryKey)
       /\ LiveQuerySubs # {}
\* no hook of the set is registered and no grace timer of one is pending
NobodyLeft(hooks) ==
  /\ \A h \in hooks : ~registered[h]
  /\ \A i \in 1..Len(timers) : timers[i].inst[1] \notin hooks

\* C39: when no hook is registered on a document path and no grace timer for
\* it is pending, no store subscription for the path is live; the same for the
\* query key.
C39_NoSubscriptionWithoutHooks ==
  /\ \A p \in Paths :
       NobodyLeft({h \in DocHooks : PathOf(h) = p}) => LiveDocSubs(p) = {}
  /\ NobodyLeft(QueryHooks) => LiveQuerySubs = {}
\* the documents the step taken last handed to a hook: the cachedDocs that
\* registerDocsHook returned, and the arguments of the onDocs calls
HandedDocs ==
  (IF lastOp.op = "registerDocsHook" /\ lastOp.cachedResults.set
   THEN Range(lastOp.cachedResults.docs) ELSE {})
  \cup UNION {Range(calls[i].docs) : i \in {j \in 1..Len(calls) : calls[j].kind = "onDocs"}}

\* the collection has a started listener that is fully loaded, and the store
\* owes no snapshot to any live chunk subscription
LoadedAndNothingPending ==
  LET l == snapshotListenersByCollectionPath IN
  /\ l # 0
  /\ listeners[l].status = "started"
  /\ listeners[l].isLoaded
  /\ \A handle \in 1..Len(chunkSubs) :
       chunkSubs[handle].live =>
         /\ chunkSubs[handle].first
         /\ chunkSubs[handle].seen = ChunkResult(chunkSubs[handle])

\* C40: a document handed to a hook, from the cache or through onDocs, while
\* the collection's listener is fully loaded and no snapshot is pending, is in
\* the store and equals the store's document of its id.
C40_HandedDocsAreCurrent ==
  LoadedAndNothingPending =>
    \A d \in HandedDocs :
      /\ collDocs[d.id].exists
      /\ collDocs[d.id].data = d.data
====
